---- MODULE Spec2Model ----
(***************************************************************************)
(* agent-chrome: the Ref/Tab cache (src/src/refs.js), the tab identity map *)
(* (src/src/tabs.js), the ref resolution of the element commands           *)
(* (actions.js: resolveRef), the snapshot engine (snapshot.js) and the     *)
(* annotated screenshot (src/src/screenshot.js), as state machines over a  *)
(* modelled file system.                                                   *)
(*                                                                         *)
(* Modelling conventions                                                   *)
(*  - A JavaScript string that the code takes apart (startsWith, slice,    *)
(*    /^t(\d+)$/) is a record [p, n]: the text p followed by the decimal   *)
(*    digits of n, or by nothing when n = NoNum.  "t3" is [p |-> "t",      *)
(*    n |-> 3], "__last" is [p |-> "__last", n |-> NoNum].  A target id is *)
(*    its first eight characters p followed by the tail n.                 *)
(*  - A JavaScript object is the sequence of its own [k, v] properties in  *)
(*    insertion order; property reads go through JsGet, which also sees    *)
(*    the properties every object inherits from Object.prototype.          *)
(*  - A file's content is the sequence of the tokens of its JSON text; a   *)
(*    write() appends or overwrites one token at the descriptor's offset.  *)
(***************************************************************************)
EXTENDS Integers, Sequences, FiniteSets, TLC

VARIABLES
  fs,        \* the file system: [files: path -> content, dirs: set of directories]
  wr,        \* each process's position inside the call it is running (saveRefs in
             \* SpecStore and SpecCrash, getTabs in SpecRace, screenshot in SpecShot)
  rd,        \* SpecStore: each reader process's position inside loadRefs
  browser,   \* Chrome: the targets it reported to the latest listing, in its order
             \* (SpecRace: every tab it has had; SpecShot: the page)
  last,      \* the most recent completed call: its arguments and its outcome
  lastPut,   \* the most recent completed put (key and document), if not disturbed since
  everSaved, \* the (port, target, label) triples a Ref Table was ever saved under
  prevTabs,  \* the tuples returned by the previous getTabs call (SpecRace: by every
             \* completed call, for the tabs still open)
  issued     \* every short-id suffix any getTabs call has handed out so far
             \* (SpecShot: the overlay calls sent to the page so far)

vars == <<fs, wr, rd, browser, last, lastPut, everSaved, prevTabs, issued>>

-----------------------------------------------------------------------------
(* Strings and JavaScript objects *)

NoNum == 0 - 1

Str(p, n) == [p |-> p, n |-> n]

LAST == Str("__last", NoNum)

\* k.startsWith('t')   (tabs.js:22)
StartsWithT(k) == k.p \in {"t", "toString"}

\* k.match(/^t(\d+)$/)   (tabs.js:28)
MatchesTNum(k) == k.p = "t" /\ k.n # NoNum

\* the names every plain object inherits from Object.prototype
ObjectPrototypeKeys == {"constructor", "toString", "valueOf", "hasOwnProperty"}

HasOwn(o, k) == \E i \in DOMAIN o : o[i].k = k

OwnGet(o, k) == o[CHOOSE i \in DOMAIN o : o[i].k = k].v

\* Object.keys(o)
ObjectKeys(o) == [i \in DOMAIN o |-> o[i].k]

\* o[k] = v : replaces the value of an own property, or appends a new one
JsSet(o, k, v) ==
  IF HasOwn(o, k)
    THEN [i \in DOMAIN o |-> IF o[i].k = k THEN [k |-> k, v |-> v] ELSE o[i]]
    ELSE Append(o, [k |-> k, v |-> v])

\* The outcome of the read o[k]: an own property, a property inherited from
\* Object.prototype (a function or object, hence truthy), or undefined.
JsGet(o, k) ==
  IF HasOwn(o, k) THEN [kind |-> "own", v |-> OwnGet(o, k)]
  ELSE IF k.n = NoNum /\ k.p \in ObjectPrototypeKeys
    THEN [kind |-> "inherited", v |-> k]
  ELSE [kind |-> "undefined", v |-> k]

-----------------------------------------------------------------------------
(* JSON.stringify and JSON.parse over token sequences *)

UndefinedHandle == 0 - 1

TokOpen == [t |-> "{", k |-> Str("", NoNum), v |-> <<>>]
TokClose == [t |-> "}", k |-> Str("", NoNum), v |-> <<>>]
TokNul == [t |-> "nul", k |-> Str("", NoNum), v |-> <<>>]
TokEntry(k, v) == [t |-> "entry", k |-> k, v |-> v]

\* A Ref Entry as JSON: a property whose value is undefined is left out.
SerEntry(e) ==
  (IF e.backendDOMNodeId = UndefinedHandle THEN <<>>
   ELSE << <<"backendDOMNodeId", e.backendDOMNodeId>> >>)
  \o << <<"role", e.role>>, <<"name", e.name>> >>

\* Reading a parsed Ref Entry's properties: a missing one reads undefined.
DeEntry(v) ==
  IF Len(v) = 3
    THEN [backendDOMNodeId |-> v[1][2], role |-> v[2][2], name |-> v[3][2]]
    ELSE [backendDOMNodeId |-> UndefinedHandle, role |-> v[1][2], name |-> v[2][2]]

\* A string value as JSON (quoted), and back.
SerString(s) == << <<"string", s>> >>
DeString(v) == v[1][2]

\* The values of a document: ref entries in a Ref Table, strings in a Tab Map.
Ser(kind, v) == IF kind = "refs" THEN SerEntry(v) ELSE SerString(v)
De(kind, v) == IF kind = "refs" THEN DeEntry(v) ELSE DeString(v)

\* JSON.stringify(obj, null, 2)
Stringify(obj, kind) ==
  <<TokOpen>> \o [i \in DOMAIN obj |-> TokEntry(obj[i].k, Ser(kind, obj[i].v))] \o <<TokClose>>

WellFormed(text) ==
  /\ Len(text) >= 2
  /\ text[1] = TokOpen
  /\ text[Len(text)] = TokClose
  /\ \A i \in 2 .. Len(text) - 1 : text[i].t = "entry"

\* The members between the braces, in order; a repeated key keeps its last value.
RECURSIVE ParseEntries(_, _, _)
ParseEntries(text, i, acc) ==
  IF i >= Len(text) THEN acc
  ELSE ParseEntries(text, i + 1, JsSet(acc, text[i].k, text[i].v))

\* JSON.parse(text): [ok |-> FALSE] stands for the SyntaxError it throws.
Parse(text, kind) ==
  IF WellFormed(text)
    THEN LET raw == ParseEntries(text, 2, <<>>)
         IN  [ok |-> TRUE, obj |-> [i \in DOMAIN raw |-> [k |-> raw[i].k, v |-> De(kind, raw[i].v)]]]
    ELSE [ok |-> FALSE, obj |-> <<>>]

\* What a load hands back: null, or the parsed object.
JsNull == [isNull |-> TRUE, obj |-> <<>>]
JsObj(o) == [isNull |-> FALSE, obj |-> o]

-----------------------------------------------------------------------------
(* Paths and the file system *)

NoLabel == <<>>

\* join(homedir(), '.agent-chrome')
Base == <<"~", ".agent-chrome">>

\* path.join normalises: "." is dropped, ".." removes the segment before it.
RECURSIVE Normalize(_, _)
Normalize(acc, segs) ==
  IF segs = <<>> THEN acc
  ELSE IF Head(segs) = "." THEN Normalize(acc, Tail(segs))
  ELSE IF Head(segs) = ".."
    THEN Normalize(IF acc = <<>> THEN acc ELSE SubSeq(acc, 1, Len(acc) - 1), Tail(segs))
  ELSE Normalize(Append(acc, Head(segs)), Tail(segs))

Join(dir, segs) == Normalize(dir, segs)

\* The directory getCacheDir returns (an empty or absent label is falsy).
CacheDir(agentId) == IF agentId = NoLabel THEN Base ELSE Join(Base, agentId)

\* a path that is not a temporary file carries no random suffix
NoSuffix == 0 - 1

\* targetId.slice(0, 8)
Slice8(targetId) == targetId.p

\* `${port}-${short}.refs.json` and `${port}-tabs.json`
RefsFileName(port, short) == [kind |-> "refs.json", port |-> port, short |-> short, tmp |-> NoSuffix]
TabsFileName(port) == [kind |-> "tabs.json", port |-> port, short |-> "tabs", tmp |-> NoSuffix]

refCachePath(port, targetId, agentId) ==
  [dir |-> CacheDir(agentId), file |-> RefsFileName(port, Slice8(targetId))]

tabMapPath(port, agentId) ==
  [dir |-> CacheDir(agentId), file |-> TabsFileName(port)]

\* filePath + '.' + randomBytes(6).toString('hex') + '.tmp'
TmpPathInPlace(filePath, sfx) == filePath
TmpPath(filePath, sfx) == [filePath EXCEPT !.file.tmp = sfx]

IsTmp(path) == path.file.tmp # NoSuffix

dirname(path) == path.dir

Prefixes(dir) == {SubSeq(dir, 1, n) : n \in 1 .. Len(dir)}

\* mkdirSync(dir, { recursive: true })
mkdirSync(f, dir) == [f EXCEPT !.dirs = @ \cup Prefixes(dir)]

existsSync(f, path) == path \in DOMAIN f.files

PutFile(files, path, content) ==
  [q \in DOMAIN files \cup {path} |-> IF q = path THEN content ELSE files[q]]

\* open(path, 'w'): creates the file, or truncates the one that is there
OpenTrunc(f, path) == [f EXCEPT !.files = PutFile(@, path, <<>>)]

\* write(fd, token) at offset off (offsets count tokens from 0)
WriteAt(f, path, off, tok) ==
  LET old == f.files[path]
      n == IF Len(old) > off + 1 THEN Len(old) ELSE off + 1
      new == [i \in 1 .. n |->
                IF i = off + 1 THEN tok
                ELSE IF i <= Len(old) THEN old[i] ELSE TokNul]
  IN  [f EXCEPT !.files = PutFile(@, path, new)]

\* a rename that does nothing
renameDropped(f, from, to) == f

\* renameSync(from, to): `to` names the file `from` named; `from` is gone
renameSync(f, from, to) ==
  IF from = to THEN f
  ELSE [f EXCEPT !.files =
          [q \in (DOMAIN @ \ {from}) \cup {to} |-> IF q = to THEN @[from] ELSE @[q]]]

RECURSIVE WriteAll(_, _, _, _)
WriteAll(f, path, data, off) ==
  IF off >= Len(data) THEN f
  ELSE WriteAll(WriteAt(f, path, off, data[off + 1]), path, data, off + 1)

\* writeFileSync(path, data), start to finish
writeFileSync(f, path, data) == WriteAll(OpenTrunc(f, path), path, data, 0)

atomicWriteFileSync(f, filePath, data, sfx) ==
  LET tmp == TmpPath(filePath, sfx)
  IN  renameSync(writeFileSync(mkdirSync(f, dirname(filePath)), tmp, data), tmp, filePath)

\* getCacheDir's mkdirSync, which every path computation performs
getCacheDir(f, agentId) == mkdirSync(f, CacheDir(agentId))

\* try { return JSON.parse(readFileSync(p, 'utf8')) } catch { return null }
\* (readFileSync throws when the file is not there; JSON.parse when the text is bad)
ReadParse(f, path, kind) ==
  IF ~existsSync(f, path) THEN JsNull
  ELSE LET r == Parse(f.files[path], kind)
       IN  IF r.ok THEN JsObj(r.obj) ELSE JsNull

\* if (!existsSync(p)) return null; then the try block
LoadFile(f, path, kind) ==
  IF ~existsSync(f, path) THEN JsNull ELSE ReadParse(f, path, kind)

\* loadRefs without its try/catch: the SyntaxError of JSON.parse reaches the caller
Raised == [isNull |-> FALSE, obj |-> <<>>, raised |-> "SyntaxError"]
loadRefsUncaught(f, port, targetId, agentId) ==
  LET p == refCachePath(port, targetId, agentId)
  IN  IF ~existsSync(f, p) THEN JsNull
      ELSE IF WellFormed(f.files[p]) THEN JsObj(Parse(f.files[p], "refs").obj) ELSE Raised

loadRefs(f, port, targetId, agentId) ==
  LoadFile(f, refCachePath(port, targetId, agentId), "refs")

loadTabMap(f, port, agentId) ==
  LoadFile(f, tabMapPath(port, agentId), "map")

\* saveRefs if it merged the new refs into the table already cached
saveRefsMerging(f, port, targetId, refs, agentId, sfx) ==
  LET old == loadRefs(f, port, targetId, agentId).obj
      kept == SelectSeq(old, LAMBDA e : ~HasOwn(refs, e.k))
  IN  atomicWriteFileSync(getCacheDir(f, agentId), refCachePath(port, targetId, agentId),
                          Stringify(kept \o refs, "refs"), sfx)

saveRefs(f, port, targetId, refs, agentId, sfx) ==
  atomicWriteFileSync(getCacheDir(f, agentId), refCachePath(port, targetId, agentId),
                      Stringify(refs, "refs"), sfx)

saveTabMapNoMarker(f, port, map, agentId, sfx) ==
  atomicWriteFileSync(getCacheDir(f, agentId), tabMapPath(port, agentId),
                      Stringify(SelectSeq(map, LAMBDA e : e.k # LAST), "map"), sfx)

saveTabMap(f, port, map, agentId, sfx) ==
  atomicWriteFileSync(getCacheDir(f, agentId), tabMapPath(port, agentId),
                      Stringify(map, "map"), sfx)

\* How the file behind a key looks to a load.
FileState(f, path) ==
  IF ~existsSync(f, path) THEN "missing"
  ELSE IF WellFormed(f.files[path]) THEN "parses" ELSE "unparseable"

-----------------------------------------------------------------------------
(* SpecStore: the concurrent-write test.  NumWriters processes each run     *)
(* WritesPerProcess saveRefs calls on one key while readers run loadRefs;   *)
(* every system call is a step of its own.                                  *)

NumWriters == 2
WritesPerProcess == 2

\* worker ids, as the test hands them out
Writers == 0 .. NumWriters - 1
Readers == {"r1"}

\* randomBytes(6): the values it can return.  Two puts that are in flight at
\* the same time are taken to have drawn different values (48 random bits).
RandomBytes == 1 .. NumWriters

\* A put that runs alone removes its temporary file before anything else can
\* see it, whatever randomBytes returned: one value stands for all of them.
OneRandom == {CHOOSE sfx \in RandomBytes : TRUE}

StorePort == 29222
StoreTarget == Str("CONCURRE", 1234)
StoreAgent == <<"concurrent-test">>
StoreKey == refCachePath(StorePort, StoreTarget, StoreAgent)

\* The document worker w writes in its i-th call (i from 0).
WorkerDoc(w, i) ==
  << [k |-> Str("e", 1),
      v |-> [backendDOMNodeId |-> w * 1000 + i, role |-> "button",
             name |-> Str("W", w * 1000 + i)]],
     [k |-> Str("e", 2),
      v |-> [backendDOMNodeId |-> w * 1000 + i + 1, role |-> "link",
             name |-> Str("Link", NoNum)]] >>

WorkerData(w) == Stringify(WorkerDoc(w, wr[w].i), "refs")

WorkerTmp(w) == TmpPath(StoreKey, wr[w].sfx)

WriterIdle(i) == [pc |-> "idle", i |-> i, sfx |-> NoSuffix, off |-> 0]
ReaderIdle == [pc |-> "idle", result |-> JsNull, putDone |-> FALSE]

\* Some put's rename has already happened.
AnyPutDone == \E w \in Writers : wr[w].i > 0

StoreRest == <<browser, last, lastPut, everSaved, prevTabs, issued>>

\* saveRefs begins: getCacheDir and atomicWriteFileSync make the directory,
\* randomBytes names the temporary file.
WBegin(w) ==
  /\ wr[w].pc = "idle"
  /\ wr[w].i < WritesPerProcess
  /\ \E sfx \in RandomBytes :
       /\ \A v \in Writers \ {w} : wr[v].pc = "idle" \/ wr[v].sfx # sfx
       /\ wr' = [wr EXCEPT ![w] = [pc |-> "open", i |-> @.i, sfx |-> sfx, off |-> 0]]
  /\ fs' = mkdirSync(getCacheDir(fs, StoreAgent), dirname(StoreKey))
  /\ UNCHANGED <<rd, StoreRest>>

\* writeFileSync(tmp, data) opens the temporary file
WOpen(w) ==
  /\ wr[w].pc = "open"
  /\ fs' = OpenTrunc(fs, WorkerTmp(w))
  /\ wr' = [wr EXCEPT ![w].pc = "write"]
  /\ UNCHANGED <<rd, StoreRest>>

\* writeFileSync(tmp, data) writes the next piece of the text
WWrite(w) ==
  /\ wr[w].pc = "write"
  /\ wr[w].off < Len(WorkerData(w))
  /\ fs' = WriteAt(fs, WorkerTmp(w), wr[w].off, WorkerData(w)[wr[w].off + 1])
  /\ wr' = [wr EXCEPT ![w].off = @ + 1]
  /\ UNCHANGED <<rd, StoreRest>>

\* renameSync(tmp, filePath); saveRefs returns
WRename(w) ==
  /\ wr[w].pc = "write"
  /\ wr[w].off = Len(WorkerData(w))
  /\ fs' = renameSync(fs, WorkerTmp(w), StoreKey)
  /\ wr' = [wr EXCEPT ![w] = WriterIdle(@.i + 1)]
  /\ UNCHANGED <<rd, StoreRest>>

\* loadRefs begins: refCachePath (getCacheDir makes the directory), existsSync
RExists(r) ==
  /\ rd[r].pc = "idle"
  /\ fs' = getCacheDir(fs, StoreAgent)
  /\ rd' = [rd EXCEPT ![r] =
              IF existsSync(fs, StoreKey)
                THEN [pc |-> "read", result |-> JsNull, putDone |-> AnyPutDone]
                ELSE [pc |-> "done", result |-> JsNull, putDone |-> AnyPutDone]]
  /\ UNCHANGED <<wr, StoreRest>>

\* readFileSync and JSON.parse inside the try block; loadRefs returns
RRead(r) ==
  /\ rd[r].pc = "read"
  /\ rd' = [rd EXCEPT ![r].pc = "done", ![r].result = ReadParse(fs, StoreKey, "refs")]
  /\ UNCHANGED <<fs, wr, StoreRest>>

\* the caller has the result; the next loadRefs may begin
RReturn(r) ==
  /\ rd[r].pc = "done"
  /\ rd' = [rd EXCEPT ![r] = ReaderIdle]
  /\ UNCHANGED <<fs, wr, StoreRest>>

NoCall == [op |-> "none"]
NoPut == [some |-> FALSE]

InitStore ==
  /\ fs = [files |-> <<>>, dirs |-> {<<"~">>}]
  /\ wr = [w \in Writers |-> WriterIdle(0)]
  /\ rd = [r \in Readers |-> ReaderIdle]
  /\ browser = <<>>
  /\ last = NoCall
  /\ lastPut = NoPut
  /\ everSaved = {}
  /\ prevTabs = <<>>
  /\ issued = {}

NextStore ==
  \/ \E w \in Writers : WBegin(w) \/ WOpen(w) \/ WWrite(w) \/ WRename(w)
  \/ \E r \in Readers : RExists(r) \/ RRead(r) \/ RReturn(r)

SpecStore == InitStore /\ [][NextStore]_vars

AllWritersDone == \A w \in Writers : wr[w].pc = "idle" /\ wr[w].i = WritesPerProcess

\* The documents whose put has renamed its temporary file onto the key.
RenamedDocs == {WorkerDoc(w, i) : w \in Writers, i \in 0 .. WritesPerProcess - 1} \cap
               UNION {{WorkerDoc(w, i) : i \in 0 .. wr[w].i - 1} : w \in Writers}

TmpFilesLeft == {p \in DOMAIN fs.files : p.dir = dirname(StoreKey) /\ IsTmp(p)}

\* C1: once every process has completed all its puts, the key holds exactly
\* one of the written documents in full (it parses and equals the document of
\* one put) and no temporary file is left in the cache directory.
C1_OneFullDocumentNoTmp ==
  AllWritersDone =>
    /\ existsSync(fs, StoreKey)
    /\ LET r == Parse(fs.files[StoreKey], "refs")
       IN  /\ r.ok
           /\ \E w \in Writers, i \in 0 .. WritesPerProcess - 1 : r.obj = WorkerDoc(w, i)
    /\ TmpFilesLeft = {}

\* All puts are done and the key holds the last document of worker 0, whose
\* rename therefore came after every rename of the other workers.
C1_Witness ==
  /\ AllWritersDone
  /\ NumWriters >= 2
  /\ loadRefs(fs, StorePort, StoreTarget, StoreAgent) = JsObj(WorkerDoc(0, WritesPerProcess - 1))

\* C2: a get that has finished returned absent only if no put had renamed
\* when the get began, and otherwise the complete document of a put whose
\* rename has happened; no partial or mixed text is ever parsed or returned.
C2_GetSeesWholeDocument ==
  \A r \in Readers :
    /\ rd[r].pc = "done" =>
         IF rd[r].result.isNull THEN ~rd[r].putDone
         ELSE rd[r].result.obj \in RenamedDocs
    /\ rd[r].pc = "read" => /\ existsSync(fs, StoreKey)
                            /\ Parse(fs.files[StoreKey], "refs").ok

\* A get returned a whole document while a put of another process had its
\* temporary file half written.
C2_Witness ==
  \E r \in Readers, w \in Writers :
    /\ rd[r].pc = "done"
    /\ ~rd[r].result.isNull
    /\ wr[w].pc = "write" /\ wr[w].off > 0 /\ wr[w].off < Len(WorkerData(w))
    /\ rd[r].result.obj \notin {WorkerDoc(w, i) : i \in 0 .. WritesPerProcess - 1}

-----------------------------------------------------------------------------
(* SpecCrash: the puts of SpecStore when a system call of atomicWriteFileSync *)
(* can throw (nothing in saveRefs catches it) and the process can be killed   *)
(* between any two system calls.  A put that stopped stays stopped; whatever  *)
(* it had written to its temporary file stays on disk.                        *)

Stopped(w) == wr[w].pc \in {"failed", "dead"}

\* mkdirSync, the open or a write of writeFileSync, or renameSync throws
WThrow(w) ==
  /\ \/ wr[w].pc = "idle" /\ wr[w].i < WritesPerProcess
     \/ wr[w].pc \in {"open", "write"}
  /\ wr' = [wr EXCEPT ![w].pc = "failed"]
  /\ UNCHANGED <<fs, rd, StoreRest>>

\* the process is killed inside atomicWriteFileSync
WKill(w) ==
  /\ wr[w].pc \in {"open", "write"}
  /\ wr' = [wr EXCEPT ![w].pc = "dead"]
  /\ UNCHANGED <<fs, rd, StoreRest>>

InitCrash == InitStore

NextCrash ==
  \/ \E w \in Writers : WBegin(w) \/ WOpen(w) \/ WWrite(w) \/ WRename(w)
  \/ \E w \in Writers : WThrow(w) \/ WKill(w)
  \/ \E r \in Readers : RExists(r) \/ RRead(r) \/ RReturn(r)

SpecCrash == InitCrash /\ [][NextCrash]_vars

\* The step is the renameSync of w's put.
IsRenameStep(w) ==
  /\ wr[w].pc = "write"
  /\ wr[w].off = Len(WorkerData(w))
  /\ wr'[w] = WriterIdle(wr[w].i + 1)

\* What the key names: nothing, or a file with some text.
Stored(f) == IF existsSync(f, StoreKey) THEN <<f.files[StoreKey]>> ELSE <<>>

\* C22: no step of a put before its rename changes what the key names, so
\* when a put throws or its process is killed there, the key holds what it
\* held when the put began and a get returns that document; and the key
\* never names anything but the whole document of a put that has renamed.
C22_FailedPutLeavesKey ==
  [][/\ (\A w \in Writers : ~IsRenameStep(w)) =>
          /\ Stored(fs') = Stored(fs)
          /\ loadRefs(fs', StorePort, StoreTarget, StoreAgent) =
               loadRefs(fs, StorePort, StoreTarget, StoreAgent)
     /\ existsSync(fs', StoreKey) =>
          \E w \in Writers, i \in 0 .. WritesPerProcess - 1 :
            /\ i < wr'[w].i
            /\ fs'.files[StoreKey] = Stringify(WorkerDoc(w, i), "refs")]_vars

\* A worker's second put stopped with its temporary file half written, no
\* other worker has put anything, and a get returns the worker's first
\* document.
C22_Witness ==
  \E w \in Writers :
    /\ Stopped(w)
    /\ wr[w].i = 1
    /\ wr[w].off > 0 /\ wr[w].off < Len(WorkerData(w))
    /\ existsSync(fs, WorkerTmp(w))
    /\ Len(fs.files[WorkerTmp(w)]) = wr[w].off
    /\ \A v \in Writers \ {w} : wr[v].i = 0 /\ wr[v].pc = "idle"
    /\ loadRefs(fs, StorePort, StoreTarget, StoreAgent) = JsObj(WorkerDoc(w, 0))

-----------------------------------------------------------------------------
(* SpecNS: the namespacing test.  Callers with different --agent-id labels  *)
(* (and callers with none) save and load Ref Tables and Tab Maps for the    *)
(* same port and target, one whole call at a time.                          *)

NsPort == 19222
NsTarget == Str("ABCDEF12", 34567890)

\* The agent ids callers pass: none, "A", "B", "." and "B/../A".
Labels == {NoLabel, <<"A">>, <<"B">>, <<".">>, <<"B", "..", "A">>}

NsHandles == {200, 999}

\* The Ref Table a caller with label a saves: its name tells who wrote it.
NsRefs(a, h) ==
  << [k |-> Str("e", 1), v |-> [backendDOMNodeId |-> h, role |-> "link", name |-> a]] >>

\* The Tab Map a caller with label a saves.
NsMap(a) ==
  << [k |-> Str("t", 1), v |-> a], [k |-> LAST, v |-> <<"t1">>] >>

NsRest == <<wr, rd, browser, lastPut, everSaved, prevTabs, issued>>

NsSaveRefs(a, h) ==
  /\ \E sfx \in OneRandom : fs' = saveRefs(fs, NsPort, NsTarget, NsRefs(a, h), a, sfx)
  /\ last' = [op |-> "saveRefs", label |-> a, result |-> JsObj(NsRefs(a, h))]
  /\ UNCHANGED NsRest

NsLoadRefs(a) ==
  /\ fs' = getCacheDir(fs, a)
  /\ last' = [op |-> "loadRefs", label |-> a, result |-> loadRefs(fs, NsPort, NsTarget, a)]
  /\ UNCHANGED NsRest

NsSaveTabMap(a) ==
  /\ \E sfx \in OneRandom : fs' = saveTabMap(fs, NsPort, NsMap(a), a, sfx)
  /\ last' = [op |-> "saveTabMap", label |-> a, result |-> JsObj(NsMap(a))]
  /\ UNCHANGED NsRest

NsLoadTabMap(a) ==
  /\ fs' = getCacheDir(fs, a)
  /\ last' = [op |-> "loadTabMap", label |-> a, result |-> loadTabMap(fs, NsPort, a)]
  /\ UNCHANGED NsRest

InitNS == InitStore

NextNS ==
  \/ \E a \in Labels, h \in NsHandles : NsSaveRefs(a, h)
  \/ \E a \in Labels : NsLoadRefs(a)
  \/ \E a \in Labels : NsSaveTabMap(a)
  \/ \E a \in Labels : NsLoadTabMap(a)

SpecNS == InitNS /\ [][NextNS]_vars

\* Who wrote a loaded document.
WrittenUnder(op, doc) == IF op = "loadRefs" THEN doc[1].v.name ELSE doc[1].v

\* C3: a load under a label (or under none) that returns a document returns
\* one that was written under that same label: a Ref Table or Tab Map written
\* under a different label, or under none, is never returned.
C3_LabelsIsolated ==
  (last.op \in {"loadRefs", "loadTabMap"} /\ ~last.result.isNull)
    => WrittenUnder(last.op, last.result.obj) = last.label

-----------------------------------------------------------------------------
(* SpecTabs: the tab identity map.  The CLI runs `tabs` (getTabs) and the   *)
(* tab resolution that precedes every other command (resolveTab), one       *)
(* process at a time; each call gets the target list Chrome reports then.   *)

MaxSuffix == 3
MaxTargets == 2

TabsPort == 9222
TabsLabel == NoLabel

EmptyString == Str("", NoNum)

\* !s for a string s
Falsy(s) == s = EmptyString

Max(a, b) == IF a >= b THEN a ELSE b

\* What CDP.List reports for a target.
Target(id, type, scheme) ==
  [id |-> Str(id, NoNum), type |-> type, title |-> <<"Title of", id>>,
   url |-> [scheme |-> scheme, rest |-> id]]

TargetIds == {"AAAA1111", "BBBB2222", "CCCC3333"}
Schemes == {"https", "chrome-extension"}

\* url.startsWith('chrome-extension://')
IsExtensionUrl(url) == url.scheme = "chrome-extension"

IsPageTarget(t) == t.type = "page" /\ ~IsExtensionUrl(t.url)

listEveryTarget(b) == b

\* listTargets(port): the page targets, in the order Chrome lists them
listTargets(b) == SelectSeq(b, IsPageTarget)

\* for (const [k, v] of Object.entries(oldMap)) if (k.startsWith('t')) targetToShort[v] = k
RECURSIVE TargetToShortLoop(_, _, _)
TargetToShortLoop(oldMap, i, acc) ==
  IF i > Len(oldMap) THEN acc
  ELSE TargetToShortLoop(oldMap, i + 1,
         IF StartsWithT(oldMap[i].k) THEN JsSet(acc, oldMap[i].v, oldMap[i].k) ELSE acc)

NoTargetToShort(oldMap) == <<>>
TargetToShort(oldMap) == TargetToShortLoop(oldMap, 1, <<>>)

\* let nextNum = 1; for (const k of Object.keys(oldMap)) ... Math.max(nextNum, N + 1)
RECURSIVE NextNumLoop(_, _, _)
NextNumLoop(keys, i, nextNum) ==
  IF i > Len(keys) THEN nextNum
  ELSE NextNumLoop(keys, i + 1,
         IF MatchesTNum(keys[i]) THEN Max(nextNum, keys[i].n + 1) ELSE nextNum)

NextNum(oldMap) == NextNumLoop(ObjectKeys(oldMap), 1, 1)

\* for (const target of targets) { ... }
RECURSIVE AssignLoop(_, _, _, _)
AssignLoop(targets, i, targetToShort, st) ==
  IF i > Len(targets) THEN st
  ELSE LET target == targets[i]
           known == JsGet(targetToShort, target.id)
           isNew == known.kind = "undefined" \/ (known.kind = "own" /\ Falsy(known.v))
           shortId == IF isNew THEN Str("t", st.nextNum) ELSE known.v
       IN  AssignLoop(targets, i + 1, targetToShort,
             [newMap |-> JsSet(st.newMap, shortId, target.id),
              tabs |-> Append(st.tabs, [shortId |-> shortId, targetId |-> target.id,
                                        title |-> target.title, url |-> target.url]),
              nextNum |-> IF isNew THEN st.nextNum + 1 ELSE st.nextNum])

\* if (oldMap.__last && newMap[oldMap.__last]) newMap.__last = oldMap.__last
PreserveLast(oldMap, newMap) ==
  LET oldLast == JsGet(oldMap, LAST)
  IN  IF /\ oldLast.kind = "own"
         /\ ~Falsy(oldLast.v)
         /\ JsGet(newMap, oldLast.v).kind # "undefined"
        THEN JsSet(newMap, LAST, oldLast.v)
        ELSE newMap

\* getTabs from line 19 on: the reconciliation of the targets listed with the
\* Tab Map loaded, what it returns, and the file system its save leaves
reconcile(f, targets, loaded, port, agentId, sfx) ==
  LET oldMap == IF loaded.isNull THEN <<>> ELSE loaded.obj
      targetToShort == TargetToShort(oldMap)
      st == AssignLoop(targets, 1, targetToShort,
                       [newMap |-> <<>>, tabs |-> <<>>, nextNum |-> NextNum(oldMap)])
      newMap == PreserveLast(oldMap, st.newMap)
  IN  [tabs |-> st.tabs,
       map |-> newMap,
       fresh |-> {targets[i].id : i \in {j \in DOMAIN targets :
                                          JsGet(targetToShort, targets[j].id).kind = "undefined"}},
       fs |-> saveTabMap(getCacheDir(f, agentId), port, newMap, agentId, sfx)]

\* getTabs(port, agentId): what it returns, and the file system it leaves
getTabs(f, b, port, agentId, sfx) ==
  reconcile(f, listTargets(b), loadTabMap(f, port, agentId), port, agentId, sfx)

NoTabArg == EmptyString

\* resolveTab(port, tabArg, agentId): what it returns or throws, the listing
\* of the getTabs call it makes, and the file system it leaves
resolveTab(f, b, port, tabArg, agentId, sfx) ==
  LET g == getTabs(f, b, port, agentId, sfx)
      found == JsGet(g.map, tabArg)
      lastShort == JsGet(g.map, LAST)
      first == g.tabs[1]
      withLast(shortId) == JsSet(g.map, LAST, shortId)
      base == [listing |-> g, fs |-> g.fs, threw |-> "", targetId |-> found, shortId |-> tabArg,
               available |-> <<>>]
  IN  IF Len(g.tabs) = 0 THEN [base EXCEPT !.threw = "NoTabs"]
      ELSE IF ~Falsy(tabArg) THEN
        IF found.kind = "undefined" \/ (found.kind = "own" /\ Falsy(found.v))
          THEN [base EXCEPT !.threw = "TabNotFound",
                            !.available = [i \in DOMAIN g.tabs |->
                                             <<g.tabs[i].shortId, g.tabs[i].title>>]]
          ELSE [base EXCEPT !.fs = saveTabMap(g.fs, port, withLast(tabArg), agentId, sfx)]
      ELSE IF /\ lastShort.kind = "own"
              /\ ~Falsy(lastShort.v)
              /\ JsGet(g.map, lastShort.v).kind # "undefined"
        THEN [base EXCEPT !.targetId = JsGet(g.map, lastShort.v), !.shortId = lastShort.v]
      ELSE [base EXCEPT !.targetId = [kind |-> "own", v |-> first.targetId],
                        !.shortId = first.shortId,
                        !.fs = saveTabMap(g.fs, port, withLast(first.shortId), agentId, sfx)]

TabArgs == {NoTabArg, Str("t", 1)}

Suffixes(tabs) == {tabs[i].shortId.n : i \in DOMAIN tabs}

TabsRest == <<wr, rd, lastPut, everSaved>>

\* The targets CDP.List can report: three tabs, a tab showing an extension
\* page, and a service worker.
RawTargets ==
  {Target(id, "page", "https") : id \in TargetIds}
    \cup {Target("DDDD4444", "page", "chrome-extension"),
          Target("EEEE5555", "service_worker", "https")}

\* What Chrome may answer to one CDP.List: at most MaxTargets targets, in any order.
Reports ==
  {r \in UNION {[1 .. n -> RawTargets] : n \in 0 .. MaxTargets} :
     \A i, j \in DOMAIN r : i # j => r[i].id # r[j].id}

Listing(op, tabArg, g, outcome) ==
  [op |-> op, tabArg |-> tabArg, tabs |-> g.tabs, map |-> g.map, fresh |-> g.fresh,
   issuedBefore |-> issued, outcome |-> outcome,
   file |-> FileState(fs, tabMapPath(TabsPort, TabsLabel))]

\* agent-chrome tabs, while Chrome reports the targets in report
CmdTabs(report) ==
  \E sfx \in OneRandom :
    \E g \in {getTabs(fs, report, TabsPort, TabsLabel, sfx)} :
        /\ Suffixes(g.tabs) \subseteq 1 .. MaxSuffix
        /\ browser' = report
        /\ fs' = g.fs
        /\ last' = Listing("getTabs", NoTabArg, g, [threw |-> ""])
        /\ prevTabs' = IF last.op \in {"getTabs", "resolveTab"} THEN last.tabs ELSE <<>>
        /\ issued' = issued \cup Suffixes(g.tabs)
        /\ UNCHANGED TabsRest

\* the resolveTab(port, tabArg) at the start of every other command
ResolveTabCall(report, tabArg) ==
  \E sfx \in OneRandom :
    \E r \in {resolveTab(fs, report, TabsPort, tabArg, TabsLabel, sfx)} :
        /\ Suffixes(r.listing.tabs) \subseteq 1 .. MaxSuffix
        /\ browser' = report
        /\ fs' = r.fs
        /\ last' = Listing("resolveTab", tabArg, r.listing,
                           [threw |-> r.threw, targetId |-> r.targetId, shortId |-> r.shortId,
                            available |-> r.available])
        /\ prevTabs' = IF last.op \in {"getTabs", "resolveTab"} THEN last.tabs ELSE <<>>
        /\ issued' = issued \cup Suffixes(r.listing.tabs)
        /\ UNCHANGED TabsRest

InitTabs == InitStore

NextTabs ==
  \/ \E report \in Reports : CmdTabs(report)
  \/ \E report \in Reports, tabArg \in TabArgs : ResolveTabCall(report, tabArg)

SpecTabs == InitTabs /\ [][NextTabs]_vars

IsListing == last.op \in {"getTabs", "resolveTab"}

\* C4: every target reported in the latest listing and in the one before it
\* has the same short id in both, whatever order the targets came in and
\* whatever other targets appeared or disappeared in between.
C4_ShortIdsKept ==
  IsListing =>
    \A i \in DOMAIN last.tabs, j \in DOMAIN prevTabs :
      last.tabs[i].targetId = prevTabs[j].targetId =>
        last.tabs[i].shortId = prevTabs[j].shortId

\* Two listings in a row share a target that moved to another position, while
\* one target of the earlier listing is gone and a new one has appeared.
C4_Witness ==
  /\ IsListing
  /\ \E i \in DOMAIN last.tabs, j \in DOMAIN prevTabs :
       /\ i # j
       /\ last.tabs[i].targetId = prevTabs[j].targetId
       /\ last.tabs[i].shortId = prevTabs[j].shortId
  /\ \E j \in DOMAIN prevTabs : \A i \in DOMAIN last.tabs : last.tabs[i].targetId # prevTabs[j].targetId
  /\ \E i \in DOMAIN last.tabs : \A j \in DOMAIN prevTabs : last.tabs[i].targetId # prevTabs[j].targetId

\* C5: in every listing, a target that had no short id in the Tab Map
\* persisted before the call is given a suffix strictly greater than every
\* suffix any earlier listing handed out.
C5_NewSuffixAboveAllIssued ==
  IsListing =>
    \A i \in DOMAIN last.tabs :
      last.tabs[i].targetId \in last.fresh =>
        \A n \in last.issuedBefore : last.tabs[i].shortId.n > n

-----------------------------------------------------------------------------
(* SpecResolve: resolveTab with every kind of --tab value (none, a short id *)
(* that may or may not be in the map, the name of a property every object   *)
(* inherits), interleaved with tab listings, one process at a time.         *)

ResolveArgs == {NoTabArg, Str("t", 1), Str("t", 2), Str("constructor", NoNum)}

\* Chrome's answers here: two tabs and a tab showing an extension page.
ResolveReports ==
  {r \in Reports : \A i \in DOMAIN r : r[i].id.p \in {"AAAA1111", "BBBB2222", "DDDD4444"}}

InitResolve == InitStore

NextResolve ==
  \/ \E report \in ResolveReports : CmdTabs(report)
  \/ \E report \in ResolveReports, tabArg \in ResolveArgs : ResolveTabCall(report, tabArg)

SpecResolve == InitResolve /\ [][NextResolve]_vars

\* map.__last as a reader of the Tab Map file finds it
PersistedMarker(f) ==
  LET loaded == loadTabMap(f, TabsPort, TabsLabel)
  IN  IF loaded.isNull THEN [kind |-> "undefined", v |-> LAST] ELSE JsGet(loaded.obj, LAST)

\* The tabs of a listing that carry the short id.
TabsNamed(tabs, shortId) == {i \in DOMAIN tabs : tabs[i].shortId = shortId}

Returned(outcome, tab) ==
  /\ outcome.threw = ""
  /\ outcome.shortId = tab.shortId
  /\ outcome.targetId = [kind |-> "own", v |-> tab.targetId]

\* C12: a resolveTab call without a short id that finds at least one tab
\* returns the tab whose short id the Tab Map file held as its __last marker
\* when the call began, if the listing of the call has a tab with that short
\* id, and the first tab of the listing otherwise.
C12_DefaultIsMarkerOrFirst ==
  [][(last'.op = "resolveTab" /\ last'.tabArg = NoTabArg /\ Len(last'.tabs) > 0) =>
       LET marker == PersistedMarker(fs)
           named == IF marker.kind = "own" THEN TabsNamed(last'.tabs, marker.v) ELSE {}
       IN  IF named # {}
             THEN \A i \in named : Returned(last'.outcome, last'.tabs[i])
             ELSE Returned(last'.outcome, last'.tabs[1])]_vars

\* C13: once a resolveTab call has returned a tab, the Tab Map file holds, as
\* its __last marker, the short id the call returned.
C13_MarkerIsReturnedShortId ==
  (last.op = "resolveTab" /\ last.outcome.threw = "") =>
    PersistedMarker(fs) = [kind |-> "own", v |-> last.outcome.shortId]

\* A call with an explicit short id moved the marker away from the short id
\* the reconciled map still carried, and a defaulted call set a marker where
\* the reconciled map had none.
C13_Witness ==
  /\ last.op = "resolveTab" /\ last.outcome.threw = ""
  /\ PersistedMarker(fs) = [kind |-> "own", v |-> last.outcome.shortId]
  /\ \/ /\ last.tabArg = Str("t", 2)
        /\ JsGet(last.map, LAST) = [kind |-> "own", v |-> Str("t", 1)]
     \/ /\ last.tabArg = NoTabArg
        /\ ~HasOwn(last.map, LAST)
        /\ last.issuedBefore # {}

\* C14: a resolveTab call that finds at least one tab and is given a short id
\* that is no key of the reconciled map throws TabNotFound listing the short
\* id (and title) of every tab found, and the Tab Map file keeps the marker
\* the reconciled map had.
C14_UnknownTabNotFound ==
  (/\ last.op = "resolveTab"
   /\ last.tabArg # NoTabArg
   /\ Len(last.tabs) > 0
   /\ ~HasOwn(last.map, last.tabArg)) =>
    /\ last.outcome.threw = "TabNotFound"
    /\ last.outcome.available = [i \in DOMAIN last.tabs |-> <<last.tabs[i].shortId, last.tabs[i].title>>]
    /\ PersistedMarker(fs) = JsGet(last.map, LAST)

NoEligibleTarget(b) == \A i \in DOMAIN b : ~(b[i].type = "page" /\ b[i].url.scheme # "chrome-extension")

\* C15: a resolveTab call made while Chrome reports no page target other than
\* extension pages throws NoTabs, with or without a short id and whatever the
\* Tab Map file held.
C15_NoTabs ==
  (last.op = "resolveTab" /\ NoEligibleTarget(browser)) => last.outcome.threw = "NoTabs"

\* NoTabs was thrown for a short id that earlier listings had handed out,
\* while Chrome reported only an extension page.
C15_Witness ==
  /\ last.op = "resolveTab"
  /\ browser # <<>> /\ NoEligibleTarget(browser)
  /\ last.tabArg = Str("t", 1)
  /\ 1 \in last.issuedBefore
  /\ last.file = "parses"
  /\ last.outcome.threw = "NoTabs"

\* the own properties of a map other than the marker
ShortIdPairs(map) == {<<map[i].k, map[i].v>> : i \in {j \in DOMAIN map : map[j].k # LAST}}

\* C16: a listing returns one tuple per eligible target Chrome reported, in
\* Chrome's order and with the target's id, title and url; different targets
\* have different short ids; and the Tab Map that getTabs leaves in the file
\* has exactly the listing's shortId-to-targetId pairs, and a marker only if
\* it is the short id of one of the tuples.
C16_ListingMatchesReport ==
  IsListing =>
    LET targets == SelectSeq(browser, LAMBDA t : ~NoEligibleTarget(<<t>>))
    IN  /\ Len(last.tabs) = Len(targets)
        /\ \A i \in DOMAIN last.tabs :
             /\ last.tabs[i].targetId = targets[i].id
             /\ last.tabs[i].title = targets[i].title
             /\ last.tabs[i].url = targets[i].url
        /\ \A i, j \in DOMAIN last.tabs : i # j => last.tabs[i].shortId # last.tabs[j].shortId
        /\ ShortIdPairs(last.map) = {<<last.tabs[i].shortId, last.tabs[i].targetId>> : i \in DOMAIN last.tabs}
        /\ HasOwn(last.map, LAST) => TabsNamed(last.tabs, OwnGet(last.map, LAST)) # {}
        /\ last.op = "getTabs" => loadTabMap(fs, TabsPort, TabsLabel) = JsObj(last.map)

\* A ref argument as typed: the prefixes in front of it ("@", "ref="), then the ref.
Ref(pre, key) == [pre |-> pre, key |-> key]

\* if (refKey.startsWith('@')) refKey = refKey.slice(1);
\* if (refKey.startsWith('ref=')) refKey = refKey.slice(4);
StripRef(refArg) ==
  LET s1 == IF refArg.pre # <<>> /\ Head(refArg.pre) = "@" THEN Tail(refArg.pre) ELSE refArg.pre
      s2 == IF s1 # <<>> /\ Head(s1) = "ref=" THEN Tail(s1) ELSE s1
  IN  Ref(s2, refArg.key)

\* refs[refKey]: a key that still carries a prefix is no property at all
RefLookup(refs, refKey) ==
  IF refKey.pre = <<>> THEN JsGet(refs, refKey.key)
  ELSE [kind |-> "undefined", v |-> refKey.key]

FirstTen(keys) == SubSeq(keys, 1, IF Len(keys) > 10 THEN 10 ELSE Len(keys))

\* resolveRef(port, targetId, refArg, agentId): the entry it returns, or the error it throws
resolveRef(f, port, targetId, refArg, agentId) ==
  LET refs == loadRefs(f, port, targetId, agentId)
      data == RefLookup(refs.obj, StripRef(refArg))
      none == [threw |-> "", data |-> data, available |-> <<>>, more |-> FALSE]
  IN  IF refs.isNull THEN [none EXCEPT !.threw = "NoSnapshotYet"]
      ELSE IF data.kind = "undefined"
        THEN [none EXCEPT !.threw = "RefNotFound",
                          !.available = FirstTen(ObjectKeys(refs.obj)),
                          !.more = Len(ObjectKeys(refs.obj)) > 10]
      ELSE none

-----------------------------------------------------------------------------
(* SpecRefs: snapshots, saves, loads and element commands on the Ref Tables *)
(* of one port, one process at a time.                                      *)

RefsPort == TabsPort

\* Two tabs whose target ids begin with the same eight characters.
Tab1 == Str("ABCDEF12", 34567890)
Tab2 == Str("ABCDEF12", 99999999)

Agent1 == <<"agent-1">>

\* The (tab, agent id) pairs that calls are made for.
RefKeys == {<<Tab1, NoLabel>>, <<Tab2, NoLabel>>, <<Tab1, Agent1>>}

RefEntry(h, role, name) == [backendDOMNodeId |-> h, role |-> role, name |-> name]

\* Ref Tables a snapshot can produce: two refs (one for a node that has no
\* backendDOMNodeId), one ref, and none (an empty page).
RefTables ==
  { << [k |-> Str("e", 1), v |-> RefEntry(100, "button", "Submit")],
       [k |-> Str("e", 2), v |-> RefEntry(UndefinedHandle, "link", "Home")] >>,
    << [k |-> Str("e", 1), v |-> RefEntry(205, "link", "Cancel")] >>,
    << >> }

RefArgs ==
  {Ref(<<>>, Str("e", 1)), Ref(<<"@">>, Str("e", 1)), Ref(<<"ref=">>, Str("e", 2)),
   Ref(<<"@", "@">>, Str("e", 1)), Ref(<<>>, Str("constructor", NoNum))}

\* A completed put: its key, the document given to it, whether a snapshot
\* command made it, and what a load of the key returned just before it.
Put(targetId, agentId, doc, bySnapshot) ==
  [some |-> TRUE, target |-> targetId, label |-> agentId, doc |-> doc, snapshot |-> bySnapshot,
   before |-> loadRefs(fs, RefsPort, targetId, agentId)]

RefsRest == <<wr, rd, browser, prevTabs, issued>>

\* agent-chrome snapshot on a tab: cmdSnapshot saves the refs without an agent id
CmdSnapshot(targetId, refs) ==
  /\ \E sfx \in OneRandom : fs' = saveRefs(fs, RefsPort, targetId, refs, NoLabel, sfx)
  /\ last' = [op |-> "snapshot", target |-> targetId, label |-> NoLabel, doc |-> refs]
  /\ lastPut' = Put(targetId, NoLabel, refs, TRUE)
  /\ everSaved' = everSaved \cup {<<targetId, NoLabel>>}
  /\ UNCHANGED RefsRest

\* saveRefs(port, targetId, refs, agentId)
SaveRefsCall(targetId, agentId, refs) ==
  /\ \E sfx \in OneRandom : fs' = saveRefs(fs, RefsPort, targetId, refs, agentId, sfx)
  /\ last' = [op |-> "saveRefs", target |-> targetId, label |-> agentId, doc |-> refs]
  /\ lastPut' = Put(targetId, agentId, refs, FALSE)
  /\ everSaved' = everSaved \cup {<<targetId, agentId>>}
  /\ UNCHANGED RefsRest

\* loadRefs(port, targetId, agentId)
LoadRefsCall(targetId, agentId) ==
  /\ fs' = getCacheDir(fs, agentId)
  /\ last' = [op |-> "loadRefs", target |-> targetId, label |-> agentId,
              file |-> FileState(fs, refCachePath(RefsPort, targetId, agentId)),
              saved |-> <<targetId, agentId>> \in everSaved,
              result |-> loadRefs(fs, RefsPort, targetId, agentId)]
  /\ UNCHANGED <<lastPut, everSaved, RefsRest>>

\* an element command (click, fill, ...): actions.js calls resolveRef first
ElementCommand(targetId, agentId, refArg) ==
  /\ fs' = getCacheDir(fs, agentId)
  /\ last' = [op |-> "resolveRef", target |-> targetId, label |-> agentId, refArg |-> refArg,
              file |-> FileState(fs, refCachePath(RefsPort, targetId, agentId)),
              saved |-> <<targetId, agentId>> \in everSaved,
              table |-> loadRefs(fs, RefsPort, targetId, agentId).obj,
              result |-> resolveRef(fs, RefsPort, targetId, refArg, agentId)]
  /\ UNCHANGED <<lastPut, everSaved, RefsRest>>

\* Something outside the program overwrites a cache file without the
\* temp-file-and-rename discipline and leaves only the first n tokens of it.
ExternalCorrupt(path, n) ==
  /\ existsSync(fs, path)
  /\ n >= 0 /\ n < Len(fs.files[path])
  /\ fs' = [fs EXCEPT !.files[path] = SubSeq(@, 1, n)]
  /\ last' = [op |-> "tamper", path |-> path]
  /\ lastPut' = NoPut
  /\ UNCHANGED <<everSaved, RefsRest>>

RefPaths == {refCachePath(RefsPort, k[1], k[2]) : k \in RefKeys}

InitRefs == InitStore

NextRefs ==
  \/ \E targetId \in {Tab1, Tab2}, refs \in RefTables : CmdSnapshot(targetId, refs)
  \/ \E k \in RefKeys, refs \in RefTables : SaveRefsCall(k[1], k[2], refs)
  \/ \E k \in RefKeys : LoadRefsCall(k[1], k[2])
  \/ \E k \in RefKeys, refArg \in RefArgs : ElementCommand(k[1], k[2], refArg)
  \/ \E path \in RefPaths : ExternalCorrupt(path, 0) \/ ExternalCorrupt(path, Len(fs.files[path]) - 1)

SpecRefs == InitRefs /\ [][NextRefs]_vars

SameKeyAsLastPut == last.target = lastPut.target /\ last.label = lastPut.label

\* C6: while the most recent put is a snapshot's, the cached Ref Table of its
\* key is exactly the table that snapshot produced, and an element command on
\* that key resolves a ref of the table to the entry (the handle) the snapshot
\* gave it, and finds no e<N> ref that the snapshot did not produce.
C6_LatestSnapshotWins ==
  (lastPut.some /\ lastPut.snapshot) =>
    /\ loadRefs(fs, RefsPort, lastPut.target, lastPut.label) = JsObj(lastPut.doc)
    /\ (last.op = "resolveRef" /\ SameKeyAsLastPut) =>
         LET refKey == StripRef(last.refArg)
         IN  IF refKey.pre = <<>> /\ HasOwn(lastPut.doc, refKey.key)
               THEN /\ last.result.threw = ""
                    /\ last.result.data = [kind |-> "own", v |-> OwnGet(lastPut.doc, refKey.key)]
               ELSE (refKey.pre # <<>> \/ refKey.key.p = "e") => last.result.threw = "RefNotFound"

\* The latest snapshot replaced a table whose e1 had another handle and that
\* had an e2, and an element command then got the new e1.
C6_Witness ==
  /\ lastPut.some /\ lastPut.snapshot
  /\ ~lastPut.before.isNull
  /\ HasOwn(lastPut.before.obj, Str("e", 2)) /\ ~HasOwn(lastPut.doc, Str("e", 2))
  /\ last.op = "resolveRef" /\ SameKeyAsLastPut
  /\ last.refArg = Ref(<<"@">>, Str("e", 1))
  /\ last.result.threw = ""
  /\ last.result.data.v = OwnGet(lastPut.doc, Str("e", 1))
  /\ last.result.data.v # OwnGet(lastPut.before.obj, Str("e", 1))

\* C7: resolveRef with a ref that, once its prefix is stripped, is not a key
\* of the cached Ref Table throws RefNotFound, naming the first ten keys of
\* that table.
C7_UnknownRefNotFound ==
  (last.op = "resolveRef" /\ last.file = "parses") =>
    LET refKey == StripRef(last.refArg)
    IN  (refKey.pre # <<>> \/ ~HasOwn(last.table, refKey.key)) =>
          /\ last.result.threw = "RefNotFound"
          /\ last.result.available = FirstTen(ObjectKeys(last.table))

\* C8: resolveRef for a (port, tab, agent id) under which no Ref Table was
\* ever saved, or whose file does not parse, throws NoSnapshotYet.
C8_NoSnapshotYet ==
  (last.op = "resolveRef" /\ (~last.saved \/ last.file = "unparseable")) =>
    last.result.threw = "NoSnapshotYet"

\* C9: while nothing has touched the cache since the last completed put, a
\* load of that put's key returns the document given to it, property for
\* property.
C9_LastWriteWins ==
  lastPut.some =>
    /\ loadRefs(fs, RefsPort, lastPut.target, lastPut.label) = JsObj(lastPut.doc)
    /\ (last.op = "loadRefs" /\ SameKeyAsLastPut) => last.result = JsObj(lastPut.doc)

\* A load returned the two-entry table (one entry without a handle) that the
\* last put wrote over a different table.
C9_Witness ==
  /\ lastPut.some
  /\ ~lastPut.before.isNull /\ lastPut.before.obj # lastPut.doc
  /\ Len(lastPut.doc) = 2
  /\ last.op = "loadRefs" /\ SameKeyAsLastPut
  /\ last.result = JsObj(lastPut.doc)

\* C11: a save of one tab's Ref Table (by a snapshot or by saveRefs) leaves
\* what loadRefs returns for every tab with another target id, under the same
\* port and agent label, as it was before the save.
C11_OtherTabUntouched ==
  [][\A targetId \in {Tab1, Tab2}, agentId \in {NoLabel, Agent1} :
       (/\ last'.op \in {"snapshot", "saveRefs"}
        /\ last'.label = agentId
        /\ last'.target # targetId)
         => loadRefs(fs', RefsPort, targetId, agentId) = loadRefs(fs, RefsPort, targetId, agentId)]_vars

-----------------------------------------------------------------------------
(* SpecCorrupt: the cache files of one port are written by the program and  *)
(* damaged from outside, and every reader of them runs: loadRefs,           *)
(* loadTabMap, the element commands' resolveRef, and getTabs.               *)

CorruptReports ==
  {r \in Reports : \A i \in DOMAIN r : r[i].id.p \in {"AAAA1111", "BBBB2222"}}

CorruptTables == {t \in RefTables : Len(t) >= 1}

CorruptPaths ==
  {refCachePath(RefsPort, Tab1, NoLabel), tabMapPath(TabsPort, TabsLabel)}

\* loadTabMap(port, agentId)
LoadTabMapCall(agentId) ==
  /\ fs' = getCacheDir(fs, agentId)
  /\ last' = [op |-> "loadTabMap", label |-> agentId,
              file |-> FileState(fs, tabMapPath(TabsPort, agentId)),
              result |-> loadTabMap(fs, TabsPort, agentId)]
  /\ UNCHANGED <<lastPut, everSaved, RefsRest>>

InitCorrupt == InitStore

NextCorrupt ==
  \/ \E refs \in CorruptTables : CmdSnapshot(Tab1, refs)
  \/ \E report \in CorruptReports : CmdTabs(report)
  \/ \E path \in CorruptPaths : ExternalCorrupt(path, 0) \/ ExternalCorrupt(path, Len(fs.files[path]) - 1)
  \/ LoadRefsCall(Tab1, NoLabel)
  \/ LoadTabMapCall(TabsLabel)
  \/ ElementCommand(Tab1, NoLabel, Ref(<<>>, Str("e", 1)))

SpecCorrupt == InitCorrupt /\ [][NextCorrupt]_vars

\* The listing getTabs produces when it starts from an empty map.
NumberedFromOne(tabs, map) ==
  /\ \A i \in DOMAIN tabs : tabs[i].shortId = Str("t", i)
  /\ map = [i \in DOMAIN tabs |-> [k |-> tabs[i].shortId, v |-> tabs[i].targetId]]

\* C10: when the file behind the key is missing or does not parse, loadRefs
\* and loadTabMap return null (no error reaches the caller), resolveRef throws
\* NoSnapshotYet, and getTabs numbers the targets from t1 as from an empty map.
C10_CorruptIsAbsent ==
  /\ (last.op \in {"loadRefs", "loadTabMap"} /\ last.file # "parses") => last.result = JsNull
  /\ (last.op = "resolveRef" /\ last.file # "parses") => last.result.threw = "NoSnapshotYet"
  /\ (last.op = "getTabs" /\ last.file # "parses") => NumberedFromOne(last.tabs, last.map)

\* getTabs listed two targets from a Tab Map file that had been written by an
\* earlier listing and then damaged.
C10_Witness ==
  /\ last.op = "getTabs"
  /\ last.file = "unparseable"
  /\ last.issuedBefore # {}
  /\ Len(last.tabs) = 2
  /\ NumberedFromOne(last.tabs, last.map)

-----------------------------------------------------------------------------
(* The snapshot engine (snapshot.js): buildTree, renderNode, getSnapshot.   *)
(* A CDP accessibility record is [nodeId, rawRole, name, value,             *)
(* backendDOMNodeId, childIds, properties]; a tree node is referred to by   *)
(* its nodeId, and a rendered line is a record of the parts of its text     *)
(* together with the nodeId of the node it was rendered for.                *)

INTERACTIVE_ROLES ==
  {"button", "link", "textbox", "checkbox", "radio", "combobox", "listbox",
   "menuitem", "menuitemcheckbox", "menuitemradio", "option", "searchbox",
   "slider", "spinbutton", "switch", "tab", "treeitem"}

CONTENT_ROLES ==
  {"heading", "cell", "gridcell", "columnheader", "rowheader",
   "listitem", "article", "region", "main", "navigation"}

STRUCTURAL_ROLES ==
  {"generic", "group", "list", "table", "row", "rowgroup", "grid",
   "treegrid", "menu", "menubar", "toolbar", "tablist", "tree",
   "directory", "document", "application", "presentation", "none",
   "Section", "LabelText", "section", "label"}

SKIP_ROLES == {"InlineTextBox", "LineBreak", "RootWebArea", "listMarker"}

\* the role names normalizeRole maps to null
NullRoles == {"InlineTextBox", "LineBreak"}

\* cdpRole.charAt(0).toLowerCase() + cdpRole.slice(1), for the capitalised
\* role names of the records used here
LowerFirst(cdpRole) ==
  CASE cdpRole = "Button" -> "button"
    [] cdpRole = "Heading" -> "heading"
    [] OTHER -> cdpRole

\* normalizeRole(cdpRole), for cdpRole outside NullRoles
normalizeRole(cdpRole) ==
  CASE cdpRole = "StaticText" -> "text"
    [] cdpRole = "RootWebArea" -> "document"
    [] cdpRole = "GenericContainer" -> "generic"
    [] cdpRole = "Section" -> "section"
    [] cdpRole = "LabelText" -> "label"
    [] cdpRole = "DescriptionList" -> "list"
    [] cdpRole = "DescriptionListTerm" -> "term"
    [] cdpRole = "DescriptionListDetail" -> "definition"
    [] cdpRole = "WebArea" -> "document"
    [] OTHER -> LowerFirst(cdpRole)

\* s.trim(), for the names used here
Trim(s) ==
  CASE s = " " -> ""
    [] s = " Foo " -> "Foo"
    [] OTHER -> s

\* getProp(node, name): the value of the first property of that name
HasProp(node, name) == \E i \in DOMAIN node.properties : node.properties[i].name = name

getProp(node, name) ==
  node.properties[CHOOSE i \in DOMAIN node.properties :
                    /\ node.properties[i].name = name
                    /\ \A j \in 1 .. i - 1 : node.properties[j].name # name].value

\* one optional part of getExtraInfo's result
ExtraTag(node, name, whenTrue, whenOther) ==
  IF ~HasProp(node, name) THEN <<>>
  ELSE IF getProp(node, name) = "true" THEN whenTrue ELSE whenOther

\* getExtraInfo(node): the bracketed tags, in the order they are joined
getExtraInfo(node) ==
  (IF HasProp(node, "level") THEN << <<"level", getProp(node, "level")>> >> ELSE <<>>)
    \o ExtraTag(node, "checked", << <<"checked">> >>, << <<"unchecked">> >>)
    \o ExtraTag(node, "selected", << <<"selected">> >>, <<>>)
    \o ExtraTag(node, "expanded", << <<"expanded">> >>, << <<"collapsed">> >>)
    \o ExtraTag(node, "required", << <<"required">> >>, <<>>)
    \o ExtraTag(node, "disabled", << <<"disabled">> >>, <<>>)

\* The nodeIds of the records buildTree keeps, and the record a nodeId names
\* (nodeMap.set: a later record with the same nodeId replaces an earlier one).
KeptIds(cdpNodes) ==
  {cdpNodes[i].nodeId : i \in {j \in DOMAIN cdpNodes : cdpNodes[j].rawRole \notin NullRoles}}

RecordOf(cdpNodes, id) ==
  cdpNodes[CHOOSE i \in DOMAIN cdpNodes :
             /\ cdpNodes[i].nodeId = id
             /\ cdpNodes[i].rawRole \notin NullRoles
             /\ \A j \in i + 1 .. Len(cdpNodes) :
                  cdpNodes[j].nodeId # id \/ cdpNodes[j].rawRole \in NullRoles]

\* buildTree(cdpNodes): null, or the root's nodeId with the linked nodes
buildTree(cdpNodes) ==
  LET kept == KeptIds(cdpNodes)
      nodeMap == [id \in kept |->
                    LET node == RecordOf(cdpNodes, id)
                    IN  [nodeId |-> id,
                         role |-> normalizeRole(node.rawRole),
                         rawRole |-> node.rawRole,
                         name |-> node.name,
                         value |-> node.value,
                         backendDOMNodeId |-> node.backendDOMNodeId,
                         childIds |-> node.childIds,
                         children |-> SelectSeq(node.childIds, LAMBDA c : c \in kept),
                         properties |-> node.properties]]
  IN  IF Len(cdpNodes) = 0 \/ cdpNodes[1].nodeId \notin kept
        THEN [isNull |-> TRUE, root |-> 0, nodes |-> nodeMap]
        ELSE [isNull |-> FALSE, root |-> cdpNodes[1].nodeId, nodes |-> nodeMap]

\* hasInteractiveDescendant(node), which renderNode does not call
RECURSIVE hasInteractiveDescendant(_, _)
hasInteractiveDescendant(T, id) ==
  \/ T[id].role \in INTERACTIVE_ROLES
  \/ \E i \in DOMAIN T[id].children : hasInteractiveDescendant(T, T[id].children[i])

\* hasMeaningfulContent(node)
RECURSIVE hasMeaningfulContent(_, _)
hasMeaningfulContent(T, id) ==
  \/ T[id].role \in INTERACTIVE_ROLES
  \/ T[id].role \in CONTENT_ROLES /\ T[id].name # ""
  \/ T[id].role = "text" /\ Trim(T[id].name) # ""
  \/ \E i \in DOMAIN T[id].children : hasMeaningfulContent(T, T[id].children[i])

NoMaxDepth == 0 - 1
NoRef == 0 - 1

\* opts as getSnapshot receives it: no _parentName yet
Opts(interactive, compact, maxDepth) ==
  [interactive |-> interactive, compact |-> compact, maxDepth |-> maxDepth, parentName |-> ""]

\* `${indent}- ${role}${namePart}${refStr}${extraStr}` and what follows the colon
Line(depth, node, ref, tail) ==
  [depth |-> depth, role |-> node.role, name |-> node.name, ref |-> ref,
   extra |-> getExtraInfo(node), tail |-> tail, node |-> node.nodeId]

\* `${indent}- text: ${text}`
TextLine(depth, node, text) ==
  [depth |-> depth, role |-> "text", name |-> "", ref |-> NoRef,
   extra |-> <<>>, tail |-> <<text>>, node |-> node.nodeId]

AssignRefSameNumber(acc, node) ==
  [acc EXCEPT !.refs = JsSet(@, Str("e", acc.n + 1),
                             RefEntry(node.backendDOMNodeId, node.role, node.name))]

\* const ref = `e${++counter.n}`; refs[ref] = { backendDOMNodeId, role, name }
AssignRef(acc, node) ==
  [acc EXCEPT !.n = @ + 1,
              !.refs = JsSet(@, Str("e", acc.n + 1),
                             RefEntry(node.backendDOMNodeId, node.role, node.name))]

neverExceedsMaxDepth(opts, depth) == FALSE

\* opts.maxDepth !== undefined && depth > opts.maxDepth
exceedsMaxDepth(opts, depth) == opts.maxDepth # NoMaxDepth /\ depth > opts.maxDepth

shouldHaveRefUnnamed(node) ==
  node.role \in INTERACTIVE_ROLES \/ node.role \in CONTENT_ROLES

\* const shouldHaveRef = isInteractive || (isContent && name)
shouldHaveRef(node) ==
  node.role \in INTERACTIVE_ROLES \/ (node.role \in CONTENT_ROLES /\ node.name # "")

\* renderNode(node, refs, opts, depth, counter) returns the lines; refs and
\* counter are objects it writes to, so the result here is [lines, refs, n],
\* together with the log of the renderNode calls made, in the order they were
\* entered: the node, the depth and the opts._parentName of each call.
\* renderEach is the flatMap / for loop over a node's children.
RECURSIVE renderNode(_, _, _, _, _, _)
RECURSIVE renderEach(_, _, _, _, _, _, _)

renderEach(T, kids, i, acc, opts, depth, exceptText) ==
  IF i > Len(kids) THEN acc
  ELSE IF exceptText /\ T[kids[i]].role = "text"
    THEN renderEach(T, kids, i + 1, acc, opts, depth, exceptText)
  ELSE LET r == renderNode(T, kids[i], acc.refs, opts, depth, acc.n)
       IN  renderEach(T, kids, i + 1,
                      [r EXCEPT !.lines = acc.lines \o r.lines, !.calls = acc.calls \o r.calls],
                      opts, depth, exceptText)

renderNode(T, id, refs, opts, depth, n) ==
  LET node == T[id]
      none == [lines |-> <<>>, refs |-> refs, n |-> n, calls |-> <<>>]
      call == [node |-> id, depth |-> depth, parentName |-> opts.parentName]
      role == node.role
      name == node.name
      isInteractive == role \in INTERACTIVE_ROLES
      isContent == role \in CONTENT_ROLES
      isStructural == role \in STRUCTURAL_ROLES \/ role = "section" \/ role = "label"
      isText == role = "text"
      text == Trim(name)
      withRef == IF shouldHaveRef(node) THEN AssignRef(none, node) ELSE none
      ref == IF shouldHaveRef(node) THEN n + 1 ELSE NoRef
      childTexts == SelectSeq(node.children, LAMBDA c : T[c].role = "text" /\ Trim(T[c].name) # "")
      otherChildren == SelectSeq(node.children, LAMBDA c : T[c].role # "text" \/ Trim(T[c].name) = "")
      allChildrenAreText == Len(otherChildren) = 0 /\ Len(childTexts) > 0
      childOpts == IF opts.compact /\ name # "" THEN [opts EXCEPT !.parentName = name] ELSE opts
      returned ==
      IF node.rawRole \in SKIP_ROLES THEN
        IF node.rawRole = "RootWebArea"
          THEN renderEach(T, node.children, 1, none, opts, depth, FALSE)
          ELSE none
      ELSE IF exceedsMaxDepth(opts, depth) THEN none
      ELSE IF opts.interactive THEN
        IF isInteractive
          THEN [AssignRef(none, node) EXCEPT
                  !.lines = <<Line(depth, node, n + 1,
                                   IF node.value # "" THEN <<node.value>> ELSE <<>>)>>]
          ELSE renderEach(T, node.children, 1, none, opts, 0, FALSE)
      ELSE IF opts.compact /\ (isStructural \/ role = "none") /\ name = "" THEN
        IF ~hasMeaningfulContent(T, id) THEN none
        ELSE renderEach(T, node.children, 1, none, opts, depth, FALSE)
      ELSE IF isText THEN
        IF text = "" THEN none
        ELSE IF opts.compact /\ opts.parentName # "" /\ text = Trim(opts.parentName) THEN none
        ELSE [none EXCEPT !.lines = <<TextLine(depth, node, text)>>]
      ELSE IF allChildrenAreText /\ ~isInteractive THEN
        [withRef EXCEPT !.lines = <<Line(depth, node, ref,
                                         [i \in DOMAIN childTexts |-> Trim(T[childTexts[i]].name)])>>]
      ELSE IF node.value # "" /\ isInteractive THEN
        renderEach(T, node.children, 1,
                   [withRef EXCEPT !.lines = <<Line(depth, node, ref, <<node.value>>)>>],
                   childOpts, depth + 1, TRUE)
      ELSE
        renderEach(T, node.children, 1,
                   [withRef EXCEPT !.lines = <<Line(depth, node, ref, <<>>)>>],
                   childOpts, depth + 1, FALSE)
  IN  [returned EXCEPT !.calls = <<call>> \o @]

EmptyPage == <<"(empty page)">>

\* getSnapshot(client, opts), given the records Accessibility.getFullAXTree returns
getSnapshot(cdpNodes, opts) ==
  LET built == buildTree(cdpNodes)
      r == renderNode(built.nodes, built.root, <<>>, opts, 0, 0)
  IN  IF built.isNull THEN [tree |-> EmptyPage, refs |-> <<>>, lines |-> <<>>, calls |-> <<>>]
      ELSE [tree |-> IF r.lines = <<>> THEN EmptyPage ELSE r.lines,
            refs |-> r.refs, lines |-> r.lines, calls |-> r.calls]

-----------------------------------------------------------------------------
(* SpecRender: getSnapshot on the accessibility records of small pages,     *)
(* under every rendering policy.                                            *)

MaxNodes == 3
MaxDepthArg == 1

\* A record of each kind the renderer tells apart, without its place in the tree.
Record(rawRole, name, value, properties) ==
  [rawRole |-> rawRole, name |-> name, value |-> value, properties |-> properties]

RecordKinds ==
  { Record("button", "Go", "", <<>>),
    Record("textbox", "", "abc", << [name |-> "required", value |-> "true"] >>),
    Record("link", "Foo", "", <<>>),
    Record("generic", "", "", <<>>),
    Record("group", "Foo", "", <<>>),
    Record("StaticText", "Foo", "", <<>>),
    Record("StaticText", " ", "", <<>>),
    Record("heading", "Foo", "", << [name |-> "level", value |-> "1"] >>),
    Record("listitem", "", "", <<>>),
    Record("listMarker", "", "", <<>>),
    Record("paragraph", "", "", <<>>) }

RootRecord == Record("RootWebArea", "Page", "", <<>>)

\* The shapes of a page of n nodes below the root: node 1 is the root and
\* the parent of node i is a node listed before it.
Parents(n) == {p \in [2 .. n + 1 -> 1 .. n] : \A i \in 2 .. n + 1 : p[i] < i}

ChildIdsOf(n, p, id) == SelectSeq([i \in 1 .. n + 1 |-> i], LAMBDA i : i > 1 /\ p[i] = id)

\* What Accessibility.getFullAXTree returns for such a page.
CdpNodes(n, p, k) ==
  [id \in 1 .. n + 1 |->
     LET rec == IF id = 1 THEN RootRecord ELSE k[id]
     IN  [nodeId |-> id, rawRole |-> rec.rawRole, name |-> rec.name, value |-> rec.value,
          backendDOMNodeId |-> 100 + id, childIds |-> ChildIdsOf(n, p, id),
          properties |-> rec.properties]]

\* The pages of at most max nodes below the root.
Pages(max) ==
  UNION {{CdpNodes(n, p, k) : p \in Parents(n), k \in [2 .. n + 1 -> RecordKinds]} :
           n \in 0 .. max}

Policies ==
  {Opts(interactive, compact, maxDepth) :
     interactive \in BOOLEAN, compact \in BOOLEAN,
     maxDepth \in {NoMaxDepth} \cup (0 .. MaxDepthArg)}

\* getSnapshot(client, opts), answered by Chrome with the records of the page
GetSnapshotCall ==
  /\ last.op = "page"
  /\ last' = [op |-> "getSnapshot", opts |-> last.opts,
              built |-> buildTree(last.nodes),
              result |-> getSnapshot(last.nodes, last.opts)]
  /\ UNCHANGED <<fs, wr, rd, browser, lastPut, everSaved, prevTabs, issued>>

\* A snapshot command is about to run: the page has some accessibility
\* records and the command line has set some policy.
InitRender ==
  /\ fs = [files |-> <<>>, dirs |-> {<<"~">>}]
  /\ wr = [w \in Writers |-> WriterIdle(0)]
  /\ rd = [r \in Readers |-> ReaderIdle]
  /\ browser = <<>>
  /\ \E cdpNodes \in Pages(MaxNodes), opts \in Policies :
       last = [op |-> "page", nodes |-> cdpNodes, opts |-> opts]
  /\ lastPut = NoPut
  /\ everSaved = {}
  /\ prevTabs = <<>>
  /\ issued = {}

NextRender == GetSnapshotCall

SpecRender == InitRender /\ [][NextRender]_vars

IsSnapshot == last.op = "getSnapshot" /\ ~last.built.isNull

\* The nodes of the built tree at and below a node.
RECURSIVE Subtree(_, _)
Subtree(T, id) == {id} \cup UNION {Subtree(T, T[id].children[i]) : i \in DOMAIN T[id].children}

\* The lines rendered for a node, and the refs that carry its handle.
LinesOf(result, id) == {i \in DOMAIN result.lines : result.lines[i].node = id}

RefsOf(result, node) ==
  {i \in DOMAIN result.refs :
     result.refs[i].v = RefEntry(node.backendDOMNodeId, node.role, node.name)}

\* The nodes at or below a node whose raw role makes renderNode return
\* nothing for it and its children (a list marker).
BelowSkipped(T, root) ==
  UNION {Subtree(T, a) : a \in {x \in Subtree(T, root) :
                                  T[x].rawRole \in SKIP_ROLES \ {"RootWebArea"}}}

\* The nodes below a text node: renderNode returns from a text node without
\* a look at its children.
BelowText(T, root) ==
  UNION {Subtree(T, a) \ {a} : a \in {x \in Subtree(T, root) : T[x].role = "text"}}

\* C17: with interactiveOnly set, every node of the built tree that has an
\* interactive role has exactly one line and exactly one ref in the result,
\* with compact set or not and wherever the node is in the tree (the nodes
\* below a list marker, which no mode renders, are left aside).
C17_InteractiveOnlyComplete ==
  (IsSnapshot /\ last.opts.interactive) =>
    \A id \in Subtree(last.built.nodes, last.built.root) \ BelowSkipped(last.built.nodes, last.built.root) :
      last.built.nodes[id].role \in INTERACTIVE_ROLES =>
        /\ Cardinality(LinesOf(last.result, id)) = 1
        /\ Cardinality(RefsOf(last.result, last.built.nodes[id])) = 1

\* The nodes of the tree below a node in depth-first pre-order.
RECURSIVE Preorder(_, _)
RECURSIVE PreorderEach(_, _, _)
PreorderEach(T, kids, i) ==
  IF i > Len(kids) THEN <<>> ELSE Preorder(T, kids[i]) \o PreorderEach(T, kids, i + 1)

Preorder(T, id) == <<id>> \o PreorderEach(T, T[id].children, 1)

PositionIn(seq, x) == CHOOSE i \in DOMAIN seq : seq[i] = x

\* The lines of a result that carry a ref, from top to bottom.
RefLines(result) == SelectSeq(result.lines, LAMBDA l : l.ref # NoRef)

\* C18: the keys of the Ref Table of one render are e1, e2, ..., eN in that
\* order; the lines that carry a ref carry, from top to bottom, e1 to eN, one
\* each; ek's entry is that of the node of the k-th such line; and those nodes
\* come in the order a depth-first pre-order walk of the tree meets them.
C18_RefsNumberedInVisitOrder ==
  IsSnapshot =>
    LET result == last.result
        T == last.built.nodes
        N == Len(result.refs)
        refLines == RefLines(result)
        order == Preorder(T, last.built.root)
    IN  /\ ObjectKeys(result.refs) = [k \in 1 .. N |-> Str("e", k)]
        /\ Len(refLines) = N
        /\ \A k \in 1 .. N :
             /\ refLines[k].ref = k
             /\ result.refs[k].v = RefEntry(T[refLines[k].node].backendDOMNodeId,
                                           T[refLines[k].node].role, T[refLines[k].node].name)
        /\ \A j, k \in 1 .. N :
             j < k => PositionIn(order, refLines[j].node) < PositionIn(order, refLines[k].node)

\* A full-mode render gave three refs to nodes at two depths, met in an order
\* that is not the order of the records (node 4 is a child of node 2 and is
\* met before node 3).
C18_Witness ==
  /\ IsSnapshot
  /\ ~last.opts.interactive
  /\ Len(last.result.refs) = 3
  /\ [k \in 1 .. 3 |-> RefLines(last.result)[k].node] = <<2, 4, 3>>
  /\ [k \in 1 .. 3 |-> RefLines(last.result)[k].depth] = <<0, 1, 0>>

\* A structural node with an empty name.
IsUnnamedStructural(node) ==
  /\ node.role \in STRUCTURAL_ROLES \cup {"section", "label", "none"}
  /\ node.name = ""

\* An interactive node, a content node with a name, or a text that is not blank.
IsMeaningful(node) ==
  \/ node.role \in INTERACTIVE_ROLES
  \/ node.role \in CONTENT_ROLES /\ node.name # ""
  \/ node.role = "text" /\ Trim(node.name) # ""

\* The renderNode calls of the latest render that reached the compaction rule
\* with an unnamed structural node: compact without interactiveOnly, the
\* node's raw role not skipped, its depth within maxDepth.
CompactionCalls ==
  {i \in DOMAIN last.result.calls :
     LET c == last.result.calls[i]
         node == last.built.nodes[c.node]
     IN  /\ last.opts.compact /\ ~last.opts.interactive
         /\ IsUnnamedStructural(node)
         /\ node.rawRole \notin SKIP_ROLES
         /\ last.opts.maxDepth = NoMaxDepth \/ c.depth <= last.opts.maxDepth}

\* Some line of a proper descendant of the call's node is at the call's depth.
DescendantLineAtDepth(c) ==
  \E d \in Subtree(last.built.nodes, c.node) \ {c.node} :
    \E i \in LinesOf(last.result, d) : last.result.lines[i].depth = c.depth

\* The node has no line, and without a meaningful descendant neither has any
\* node below it.
PrunedAsStated(c) ==
  LET T == last.built.nodes
      below == Subtree(T, c.node) \ {c.node}
  IN  /\ LinesOf(last.result, c.node) = {}
      /\ (\A d \in below : ~IsMeaningful(T[d])) =>
           \A d \in below : LinesOf(last.result, d) = {}

\* A descendant that renderNode can reach from the call's node: not below a
\* list marker and not below a text node.
Reachable(c) ==
  LET T == last.built.nodes
  IN  (Subtree(T, c.node) \ {c.node}) \ (BelowSkipped(T, c.node) \cup BelowText(T, c.node))

IsSuppressed(c, d) ==
  LET T == last.built.nodes
  IN  \/ d \notin Reachable(c)
      \/ /\ T[d].role = "text"
         /\ c.parentName # ""
         /\ Trim(T[d].name) = Trim(c.parentName)

C23_InteractiveNeverRemoved ==
  (IsSnapshot /\ ~last.opts.interactive /\ last.opts.maxDepth = NoMaxDepth) =>
    \A id \in Subtree(last.built.nodes, last.built.root) \ BelowText(last.built.nodes, last.built.root) :
      last.built.nodes[id].role \in INTERACTIVE_ROLES =>
        /\ Cardinality(LinesOf(last.result, id)) = 1
        /\ \A i \in LinesOf(last.result, id) : last.result.lines[i].ref # NoRef
        /\ Cardinality(RefsOf(last.result, last.built.nodes[id])) = 1

\* The nodes of the built tree a Ref Table entry can belong to.
OwnersOf(T, entry) ==
  {id \in DOMAIN T : entry = RefEntry(T[id].backendDOMNodeId, T[id].role, T[id].name)}

\* C26: in every mode, every entry of the Ref Table is that of a node of the
\* built tree that is interactive, or (with interactiveOnly off) has a
\* content role and a non-empty name; and a text node, a node with a
\* structural role and a node with a content role and an empty name have no
\* entry and no ref on their lines.
C26_RefsOnlyForRefWorthy ==
  IsSnapshot =>
    LET T == last.built.nodes
        result == last.result
    IN  /\ \A k \in DOMAIN result.refs :
             /\ OwnersOf(T, result.refs[k].v) # {}
             /\ \A id \in OwnersOf(T, result.refs[k].v) :
                  \/ T[id].role \in INTERACTIVE_ROLES
                  \/ /\ ~last.opts.interactive
                     /\ T[id].role \in CONTENT_ROLES
                     /\ T[id].name # ""
        /\ \A id \in DOMAIN T :
             (\/ T[id].role = "text"
              \/ T[id].role \in STRUCTURAL_ROLES
              \/ T[id].role \in CONTENT_ROLES /\ T[id].name = "") =>
               /\ RefsOf(result, T[id]) = {}
               /\ \A i \in LinesOf(result, id) : result.lines[i].ref = NoRef

\* A render with interactiveOnly off gave a ref to a named heading and a
\* line without a ref to an unnamed list item and to a text.
C26_Witness ==
  /\ IsSnapshot
  /\ ~last.opts.interactive
  /\ \E a, b, c \in DOMAIN last.built.nodes :
       /\ last.built.nodes[a].role = "heading"
       /\ RefsOf(last.result, last.built.nodes[a]) # {}
       /\ last.built.nodes[b].role = "listitem"
       /\ \E i \in LinesOf(last.result, b) : last.result.lines[i].ref = NoRef
       /\ last.built.nodes[c].role = "text"
       /\ \E i \in LinesOf(last.result, c) : last.result.lines[i].ref = NoRef

\* The nodes of the built tree above a node.
Ancestors(T, root, id) == {a \in Subtree(T, root) \ {id} : id \in Subtree(T, a)}

\* The number of nodes above a node that have a line of their own.
RenderedDepth(T, root, result, id) ==
  Cardinality({a \in Ancestors(T, root, id) : LinesOf(result, a) # {}})

\* C27: the depth of every line is the number of nodes above its node that
\* have a line themselves; with maxDepth set to d, no line is deeper than d
\* and every ref of the Ref Table is on a line no deeper than d; and with
\* interactiveOnly set every line is at depth 0, and the lines and the Ref
\* Table with maxDepth d >= 0 are those of the same render without maxDepth.
C27_MaxDepthBoundsRenderedDepth ==
  [][(last'.op = "getSnapshot" /\ ~last'.built.isNull) =>
       LET T == last'.built.nodes
           root == last'.built.root
           result == last'.result
           d == last'.opts.maxDepth
           unbounded == getSnapshot(last.nodes, [last.opts EXCEPT !.maxDepth = NoMaxDepth])
       IN  /\ \A i \in DOMAIN result.lines :
                result.lines[i].depth = RenderedDepth(T, root, result, result.lines[i].node)
           /\ d # NoMaxDepth =>
                /\ \A i \in DOMAIN result.lines : result.lines[i].depth <= d
                /\ \A k \in DOMAIN result.refs :
                     \E i \in DOMAIN result.lines :
                       /\ result.refs[k].k = Str("e", result.lines[i].ref)
                       /\ result.lines[i].depth <= d
           /\ last'.opts.interactive =>
                /\ \A i \in DOMAIN result.lines : result.lines[i].depth = 0
                /\ d >= 0 => /\ result.lines = unbounded.lines
                             /\ result.refs = unbounded.refs]_vars

\* A compact render with maxDepth 0: a link below an unnamed wrapper has its
\* line at depth 0, and the button below the link, which would be at depth
\* 1, has no line and no ref.
C27_Witness ==
  /\ IsSnapshot
  /\ last.opts.compact /\ ~last.opts.interactive /\ last.opts.maxDepth = 0
  /\ \E w, l, b \in DOMAIN last.built.nodes :
       /\ last.built.nodes[w].role = "generic" /\ last.built.nodes[w].children = <<l>>
       /\ last.built.nodes[l].role = "link" /\ last.built.nodes[l].children = <<b>>
       /\ last.built.nodes[b].role = "button"
       /\ LinesOf(last.result, w) = {}
       /\ \E i \in LinesOf(last.result, l) : last.result.lines[i].depth = 0
       /\ LinesOf(last.result, b) = {}
       /\ RefsOf(last.result, last.built.nodes[b]) = {}

-----------------------------------------------------------------------------
(* SpecBuild: buildTree and getSnapshot on record lists of any kind: empty, *)
(* or with a first record of any raw role, the second record a child of the *)
(* first or not.                                                            *)

MaxRecords == 2

\* Raw roles a record can carry; the empty string stands for a record with
\* no role field (node.role?.value || '').
BuildRoles == {"RootWebArea", "WebArea", "InlineTextBox", "LineBreak", "StaticText", "button", ""}

\* The record lists of n records: record 1 lists record 2 as its child, or
\* has no children.
RecordLists(n) ==
  {[id \in 1 .. n |->
      [nodeId |-> id, rawRole |-> roles[id], name |-> "Foo", value |-> "",
       backendDOMNodeId |-> 100 + id,
       childIds |-> IF id = 1 /\ linked THEN [i \in 1 .. n - 1 |-> i + 1] ELSE <<>>,
       properties |-> <<>>]] :
     roles \in [1 .. n -> BuildRoles], linked \in BOOLEAN}

\* const root = buildTree(nodes), and the getSnapshot around it
BuildTreeCall ==
  /\ last.op = "records"
  /\ last' = [op |-> "buildTree", cdpNodes |-> last.nodes,
              built |-> buildTree(last.nodes),
              result |-> getSnapshot(last.nodes, last.opts)]
  /\ UNCHANGED <<fs, wr, rd, browser, lastPut, everSaved, prevTabs, issued>>

InitBuild ==
  /\ fs = [files |-> <<>>, dirs |-> {<<"~">>}]
  /\ wr = [w \in Writers |-> WriterIdle(0)]
  /\ rd = [r \in Readers |-> ReaderIdle]
  /\ browser = <<>>
  /\ \E n \in 0 .. MaxRecords : \E cdpNodes \in RecordLists(n) :
       last = [op |-> "records", nodes |-> cdpNodes, opts |-> Opts(FALSE, FALSE, NoMaxDepth)]
  /\ lastPut = NoPut
  /\ everSaved = {}
  /\ prevTabs = <<>>
  /\ issued = {}

NextBuild == BuildTreeCall

SpecBuild == InitBuild /\ [][NextBuild]_vars

\* C25: buildTree returns null for the empty record list only: for a list
\* with at least one record it returns a root, whatever the raw role of the
\* first record, and getSnapshot goes on to render it.
C25_NullOnlyForEmptyList ==
  last.op = "buildTree" =>
    /\ last.built.isNull <=> Len(last.cdpNodes) = 0
    /\ Len(last.cdpNodes) > 0 => last.built.root \in DOMAIN last.built.nodes

-----------------------------------------------------------------------------
(* SpecSentinel: resolveTab when --tab can be the name of the Tab Map's     *)
(* marker key, interleaved with tab listings, one process at a time.        *)

SentinelArgs == {NoTabArg, Str("t", 1), Str("t", 2), LAST}

InitSentinel == InitStore

NextSentinel ==
  \/ \E report \in ResolveReports : CmdTabs(report)
  \/ \E report \in ResolveReports, tabArg \in SentinelArgs : ResolveTabCall(report, tabArg)

SpecSentinel == InitSentinel /\ [][NextSentinel]_vars

\* C24: a resolveTab call that returns, whatever its tab argument, returns
\* the short id and the target id of one tuple of the listing it made: a
\* short id of the form t<N> and the id of a target Chrome reported.
C24_ReturnsTupleOfListing ==
  (last.op = "resolveTab" /\ last.outcome.threw = "") =>
    /\ \E i \in DOMAIN last.tabs : Returned(last.outcome, last.tabs[i])
    /\ MatchesTNum(last.outcome.shortId)
    /\ \E i \in DOMAIN browser : last.outcome.targetId = [kind |-> "own", v |-> browser[i].id]

-----------------------------------------------------------------------------
(* SpecRace: getTabs run by several processes at once on one (port, label). *)
(* A process is suspended at `await listTargets(port)`, and another process *)
(* can run between its loadTabMap and its saveTabMap.  Tabs open and close  *)
(* meanwhile; a closed tab's target id is never used again.  Here wr holds  *)
(* each process's position inside getTabs, browser every tab Chrome has had *)
(* (with a flag for the open ones) and prevTabs the ghost record of what    *)
(* completed listings returned for the tabs that are still open.            *)

NumListers == 2
ListingsPerProcess == 2
MaxTabs == 2

Listers == 1 .. NumListers

RaceIds == <<"AAAA1111", "BBBB2222", "CCCC3333">>

ListerIdle(i) == [pc |-> "idle", i |-> i, targets |-> <<>>, loaded |-> JsNull]

OpenTargets == {browser[i].target : i \in {j \in DOMAIN browser : browser[j].open}}

\* What Chrome may answer to CDP.List now: the open tabs, in any order.
RaceReports ==
  {r \in [1 .. Cardinality(OpenTargets) -> OpenTargets] :
     \A i, j \in DOMAIN r : i # j => r[i] # r[j]}

RaceRest == <<rd, lastPut, everSaved, issued>>

\* the user opens a tab
OpenTab ==
  /\ Len(browser) < MaxTabs
  /\ browser' = Append(browser, [target |-> Target(RaceIds[Len(browser) + 1], "page", "https"),
                                 open |-> TRUE])
  /\ UNCHANGED <<fs, wr, last, prevTabs, RaceRest>>

\* the user closes a tab
CloseTab(i) ==
  /\ browser[i].open
  /\ browser' = [browser EXCEPT ![i].open = FALSE]
  /\ prevTabs' = {t \in prevTabs : t.targetId # browser[i].target.id}
  /\ UNCHANGED <<fs, wr, last, RaceRest>>

\* const targets = await listTargets(port)
GtList(p, report) ==
  /\ wr[p].pc = "idle"
  /\ wr[p].i < ListingsPerProcess
  /\ wr' = [wr EXCEPT ![p].pc = "listed", ![p].targets = listTargets(report)]
  /\ UNCHANGED <<fs, browser, last, prevTabs, RaceRest>>

\* const oldMap = loadTabMap(port, agentId) || {}
GtLoad(p) ==
  /\ wr[p].pc = "listed"
  /\ wr' = [wr EXCEPT ![p].pc = "loaded", ![p].loaded = loadTabMap(fs, TabsPort, TabsLabel)]
  /\ fs' = getCacheDir(fs, TabsLabel)
  /\ UNCHANGED <<browser, last, prevTabs, RaceRest>>

\* the rest of getTabs: the reconciliation, saveTabMap, return { tabs, map }
GtSave(p) ==
  /\ wr[p].pc = "loaded"
  /\ \E sfx \in OneRandom :
       \E g \in {reconcile(fs, wr[p].targets, wr[p].loaded, TabsPort, TabsLabel, sfx)} :
         /\ fs' = g.fs
         /\ last' = [op |-> "getTabs", proc |-> p, tabs |-> g.tabs, map |-> g.map,
                     loaded |-> wr[p].loaded, before |-> prevTabs]
         /\ prevTabs' = prevTabs \cup
                          {[shortId |-> g.tabs[i].shortId, targetId |-> g.tabs[i].targetId] :
                             i \in {j \in DOMAIN g.tabs : g.tabs[j].targetId \in
                                                            {t.id : t \in OpenTargets}}}
  /\ wr' = [wr EXCEPT ![p] = ListerIdle(@.i + 1)]
  /\ UNCHANGED <<browser, RaceRest>>

InitRace ==
  /\ fs = [files |-> <<>>, dirs |-> {<<"~">>}]
  /\ wr = [p \in Listers |-> ListerIdle(0)]
  /\ rd = [r \in Readers |-> ReaderIdle]
  /\ browser = <<>>
  /\ last = NoCall
  /\ lastPut = NoPut
  /\ everSaved = {}
  /\ prevTabs = {}
  /\ issued = {}

NextRace ==
  \/ OpenTab
  \/ \E i \in DOMAIN browser : CloseTab(i)
  \/ \E p \in Listers : \E report \in RaceReports : GtList(p, report)
  \/ \E p \in Listers : GtLoad(p) \/ GtSave(p)

SpecRace == InitRace /\ [][NextRace]_vars

\* C21: whatever the interleaving of the processes' steps, a tab that has
\* stayed open has been given one short id only by all the listings completed
\* since it opened, and no short id has been given to two of the tabs that
\* have stayed open.
C21_ShortIdsStableUnderRace ==
  \A a, b \in prevTabs :
    /\ a.targetId = b.targetId => a.shortId = b.shortId
    /\ a.shortId = b.shortId => a.targetId = b.targetId

\* The short id the Tab Map a listing loaded holds for a target.
LoadedShortIds(loaded, targetId) ==
  IF loaded.isNull THEN {}
  ELSE {loaded.obj[i].k : i \in {j \in DOMAIN loaded.obj :
                                    loaded.obj[j].v = targetId /\ loaded.obj[j].k # LAST}}

\* C21 (amended): whatever the interleaving, a completed listing gives every
\* target the short id that the Tab Map it loaded held for it, and gives no
\* short id to two targets.
C21_KeepsLoadedShortIds ==
  last.op = "getTabs" =>
    /\ \A i \in DOMAIN last.tabs :
         \A k \in LoadedShortIds(last.loaded, last.tabs[i].targetId) : last.tabs[i].shortId = k
    /\ \A i, j \in DOMAIN last.tabs : i # j => last.tabs[i].shortId # last.tabs[j].shortId

\* A listing that loaded the Tab Map before another process saved its own
\* has completed after it, and returned two tabs of which the loaded map
\* held one under a short id above 1.
C21_Witness ==
  /\ last.op = "getTabs"
  /\ Len(last.tabs) = 2
  /\ \E i \in DOMAIN last.tabs :
       /\ LoadedShortIds(last.loaded, last.tabs[i].targetId) = {last.tabs[i].shortId}
       /\ last.tabs[i].shortId.n > 1
  /\ \E t \in last.before : \A i \in DOMAIN last.tabs :
       last.tabs[i].targetId = t.targetId => last.tabs[i].shortId # t.shortId

-----------------------------------------------------------------------------
(* SpecShot: one screenshot(client, savePath, opts) call, await by await.   *)
(* Every call to the browser and to the file system either succeeds or      *)
(* throws; a Runtime.evaluate that rejects has changed nothing in the page. *)
(* Here wr holds the call's position and local variables, browser the page  *)
(* (whether the overlay element is in it), issued the calls sent to the     *)
(* page for the overlay, in order, and last what the call returned or threw.*)

MaxItems == 2

ShotOpts == [annotate : BOOLEAN, fullPage : BOOLEAN, format : {"png", "jpeg"}]

\* savePath: none, or a path the caller gave
NoSavePath == [dir |-> <<>>, file |-> [kind |-> "", port |-> 0, short |-> "", tmp |-> NoSuffix]]
GivenSavePath == [dir |-> <<"out">>, file |-> [kind |-> "png", port |-> 0, short |-> "shot", tmp |-> NoSuffix]]

\* join(homedir(), '.agent-chrome', 'screenshots') and the generated file name
AutoSavePath(format) ==
  [dir |-> Join(Base, <<"screenshots">>),
   file |-> [kind |-> IF format = "jpeg" THEN "jpg" ELSE "png", port |-> 0,
             short |-> "screenshot", tmp |-> NoSuffix]]

ShotStart(opts, savePath) ==
  [pc |-> "start", opts |-> opts, savePath |-> savePath, overlayInjected |-> FALSE,
   items |-> 0, failedAt |-> ""]

ShotRest == <<rd, lastPut, everSaved, prevTabs>>

\* } catch (error) { ... }: control goes to the catch block
Throw(at) == wr' = [wr EXCEPT !.pc = "catch", !.failedAt = at]

catchRethrowsOnly(overlayInjected) == FALSE

\* catch (error) { if (overlayInjected) await removeAnnotationOverlay(client); throw error }
catchRemoves(overlayInjected) == overlayInjected

\* await removeAnnotationOverlay(client): the call is sent; the element is
\* removed, or the call fails and the failure is swallowed
RemoveOverlay(ok) ==
  /\ issued' = Append(issued, "remove")
  /\ browser' = IF ok THEN [browser EXCEPT !.overlay = FALSE] ELSE browser

\* if (opts.annotate): getSnapshot(client, { interactive: true }) and
\* getRefBoundingBoxes(client, refs), which catches its own errors
ShotSnapshot(ok, n) ==
  /\ wr.pc = "start"
  /\ IF ~wr.opts.annotate
       THEN wr' = [wr EXCEPT !.pc = IF wr.opts.fullPage THEN "dims" ELSE "capture"]
       ELSE IF ok
         THEN wr' = [wr EXCEPT !.items = n,
                               !.pc = IF n > 0 THEN "inject"
                                      ELSE IF wr.opts.fullPage THEN "scroll" ELSE "capture"]
         ELSE Throw("getSnapshot")
  /\ UNCHANGED <<fs, browser, last, issued, ShotRest>>

\* await injectAnnotationOverlay(client, items); overlayInjected = true
ShotInject(ok) ==
  /\ wr.pc = "inject"
  /\ IF ok
       THEN /\ browser' = [browser EXCEPT !.overlay = TRUE]
            /\ issued' = Append(issued, "inject")
            /\ wr' = [wr EXCEPT !.overlayInjected = TRUE,
                                !.pc = IF wr.opts.fullPage THEN "scroll" ELSE "capture"]
       ELSE /\ Throw("inject")
            /\ UNCHANGED <<browser, issued>>
  /\ UNCHANGED <<fs, last, ShotRest>>

\* if (opts.fullPage) inside the annotate block: the scroll offsets
ShotScroll(ok) ==
  /\ wr.pc = "scroll"
  /\ IF ok THEN wr' = [wr EXCEPT !.pc = "dims"] ELSE Throw("scroll")
  /\ UNCHANGED <<fs, browser, last, issued, ShotRest>>

\* if (opts.fullPage): the document's dimensions
ShotDims(ok) ==
  /\ wr.pc = "dims"
  /\ IF ok THEN wr' = [wr EXCEPT !.pc = "capture"] ELSE Throw("dims")
  /\ UNCHANGED <<fs, browser, last, issued, ShotRest>>

\* const { data } = await Page.captureScreenshot(params)
ShotCapture(ok) ==
  /\ wr.pc = "capture"
  /\ IF ok THEN wr' = [wr EXCEPT !.pc = "write"] ELSE Throw("capture")
  /\ UNCHANGED <<fs, browser, last, issued, ShotRest>>

\* the savePath default, mkdirSync(dirname(savePath)), writeFileSync(savePath, buffer)
ShotWrite(ok) ==
  /\ wr.pc = "write"
  /\ LET savePath == IF wr.savePath = NoSavePath THEN AutoSavePath(wr.opts.format)
                     ELSE wr.savePath
     IN  IF ok
           THEN /\ fs' = writeFileSync(mkdirSync(fs, dirname(savePath)), savePath,
                                       <<[image |-> browser.overlay]>>)
                /\ wr' = [wr EXCEPT !.pc = "remove", !.savePath = savePath]
           ELSE /\ Throw("write")
                /\ fs' = fs
  /\ UNCHANGED <<browser, last, issued, ShotRest>>

\* if (overlayInjected) await removeAnnotationOverlay(client); return { path, ... }
ShotReturn(ok) ==
  /\ wr.pc = "remove"
  /\ IF wr.overlayInjected THEN RemoveOverlay(ok) ELSE UNCHANGED <<browser, issued>>
  /\ wr' = [wr EXCEPT !.pc = "returned"]
  /\ last' = [op |-> "screenshot", threw |-> "", path |-> wr.savePath,
              annotations |-> wr.items]
  /\ UNCHANGED <<fs, ShotRest>>

\* the catch block; screenshot throws the error it caught
ShotCatch(ok) ==
  /\ wr.pc = "catch"
  /\ IF catchRemoves(wr.overlayInjected) THEN RemoveOverlay(ok) ELSE UNCHANGED <<browser, issued>>
  /\ wr' = [wr EXCEPT !.pc = "threw"]
  /\ last' = [op |-> "screenshot", threw |-> wr.failedAt, path |-> NoSavePath,
              annotations |-> 0]
  /\ UNCHANGED <<fs, ShotRest>>

InitShot ==
  /\ fs = [files |-> <<>>, dirs |-> {<<"~">>}]
  /\ \E opts \in ShotOpts, savePath \in {NoSavePath, GivenSavePath} :
       wr = ShotStart(opts, savePath)
  /\ rd = [r \in Readers |-> ReaderIdle]
  /\ browser = [overlay |-> FALSE]
  /\ last = NoCall
  /\ lastPut = NoPut
  /\ everSaved = {}
  /\ prevTabs = <<>>
  /\ issued = <<>>

NextShot ==
  \/ \E ok \in BOOLEAN, n \in 0 .. MaxItems : ShotSnapshot(ok, n)
  \/ \E ok \in BOOLEAN : ShotInject(ok) \/ ShotScroll(ok) \/ ShotDims(ok)
  \/ \E ok \in BOOLEAN : ShotCapture(ok) \/ ShotWrite(ok)
  \/ \E ok \in BOOLEAN : ShotReturn(ok) \/ ShotCatch(ok)

SpecShot == InitShot /\ [][NextShot]_vars

ShotFinished == wr.pc \in {"returned", "threw"}

\* C28: when screenshot has returned or thrown and the overlay had been
\* injected into the page, a call removing the overlay was sent after the
\* injection; this holds wherever the call failed after the injection and
\* when it did not fail.
C28_RemovalAlwaysIssued ==
  ShotFinished =>
    \A i \in DOMAIN issued :
      issued[i] = "inject" => \E j \in DOMAIN issued : j > i /\ issued[j] = "remove"

\* A full-page annotated screenshot threw because the file could not be
\* written; the overlay had been injected, the removal was sent and failed,
\* and the overlay is still in the page.
C28_Witness ==
  /\ wr.pc = "threw"
  /\ wr.failedAt = "write"
  /\ wr.opts.annotate /\ wr.opts.fullPage
  /\ issued = <<"inject", "remove">>
  /\ browser.overlay

====
